---- MODULE Spec2Model ----
(***************************************************************************)
(* Model of the retrieval commands of rednote-agent:                       *)
(*   commands/getNoteComments.ts  getNoteComments (the command)            *)
(*   commands/getNoteContent.ts   getNoteContent (the command)             *)
(*   commands/searchNotes.ts      searchNotes (the command)                *)
(*   tools/rednoteTools.ts        RedNoteTools.initialize, cleanup,        *)
(*                                extractRedBookUrl, convertToStandardDate,*)
(*                                searchNotes, getNoteContent,             *)
(*                                getNoteComments, scrollAndLoadAllComments,*)
(*                                expandAllCommentReplies,                 *)
(*                                scrollAndCollectAllComments              *)
(*   tools/noteDetail.ts          GetNoteDetail and its publish-time rules *)
(*   auth/authManager.ts          AuthManager.login                        *)
(*   utils/logger.ts              ExcelExporter (imported by index.ts as   *)
(*                                utils/excel)                             *)
(* The page is the environment: what it renders, whether it scrolls and    *)
(* whether a call into it rejects are inputs drawn with \E.                *)
(***************************************************************************)
EXTENDS Integers, Sequences, FiniteSets, TLC

\* ------------------------------------------------------------------ bounds
MaxTarget == 3      \* largest number the count label shows
MaxControls == 2    \* expand controls the page ever creates
MaxCount == 3       \* the observation counters polls/reveals saturate here
MaxText == 4        \* longest share text, in elements
MaxAgo == 3         \* largest N of an 'N ... ago' phrase
MaxItems == 2       \* most note items a search result page shows
MaxLimit == 2       \* largest limit a search is asked for
MaxTimeout == 2     \* largest login timeout asked for, in seconds
MaxCalls == 3       \* most calls made on one exporter
MaxFails == 3       \* most attempts in a row a cover click would fail

\* ------------------------------------------------------- the rendered page
\* A .parent-comment block: main says whether it holds a primary
\* .comment-item:not(.comment-item-sub); author/text/time are the trimmed
\* texts of the nodes the selectors find ("" when the node is missing);
\* imgs are the src attributes of the node's .comment-picture img children
\* ("" for an img without src).
\* Two blocks carry the same author, text and time (one user posting the
\* same words twice on a day); one
\* reply is a picture with a src and no text; one primary comment is a picture without src and no text; one
\* reply node has neither text nor picture; one block has no author. The
\* time labels are '3 days ago' and '05-01'.
ThreeDaysAgo == << "3", "daysAgo" >>

MayFirst == << "0", "5", "-", "0", "1" >>

FullFeed ==
  << [main |-> TRUE, author |-> "amy", text |-> "hi", time |-> ThreeDaysAgo, likes |-> 1,
      imgs |-> << >>,
      replies |-> << [author |-> "bob", text |-> "", time |-> ThreeDaysAgo, likes |-> 0,
                      imgs |-> << "u1" >>] >>],
     [main |-> TRUE, author |-> "amy", text |-> "hi", time |-> ThreeDaysAgo, likes |-> 2,
      imgs |-> << >>, replies |-> << >>],
     [main |-> TRUE, author |-> "bob", text |-> "", time |-> MayFirst, likes |-> 0,
      imgs |-> << "" >>,
      replies |-> << [author |-> "cat", text |-> "", time |-> ThreeDaysAgo, likes |-> 0,
                      imgs |-> << >>] >>],
     [main |-> TRUE, author |-> "",    text |-> "hi", time |-> ThreeDaysAgo, likes |-> 0,
      imgs |-> << >>, replies |-> << >>] >>

\* The blocks of f at the indices in keep, in order.
RECURSIVE Pick(_, _, _)
Pick(f, keep, i) ==
  IF i > Len(f) THEN << >>
  ELSE (IF i \in keep THEN << f[i] >> ELSE << >>) \o Pick(f, keep, i + 1)

\* A note with one comment that has one reply of plain text.
TextReplyFeed ==
  << [main |-> TRUE, author |-> "dan", text |-> "yo", time |-> MayFirst, likes |-> 3,
      imgs |-> << >>,
      replies |-> << [author |-> "amy", text |-> "ok", time |-> MayFirst, likes |-> 0,
                      imgs |-> << >>] >>] >>

\* A note with one comment that reads 'the end'.
TheEndFeed ==
  << [main |-> TRUE, author |-> "eve", text |-> "the end", time |-> MayFirst, likes |-> 0,
      imgs |-> << >>, replies |-> << >>] >>

\* The comment blocks that exist on the note, in document order.
Feeds ==
  { Pick(FullFeed, keep, 1) : keep \in SUBSET (1..Len(FullFeed)) }
    \cup { TextReplyFeed, TheEndFeed }

\* What the page renders of a feed at one instant: the blocks lo..hi (a
\* virtualised list may have dropped the earlier ones), each with its reply
\* nodes shown or still collapsed behind an expand control.
Render(f, lo, hi, shown) ==
  [i \in 1..(hi - lo + 1) |->
     [f[lo + i - 1] EXCEPT !.replies = IF shown[lo + i - 1] THEN @ ELSE << >>]]

Renderings(f) ==
  { Render(f, lo, hi, shown) :
      lo \in 1..(Len(f) + 1), hi \in 0..Len(f), shown \in [1..Len(f) -> BOOLEAN] }

\* A relative time label is computed by the page from the clock: the
\* label of a comment reads '4 days ago' once a day boundary has passed.
FourDaysAgo == << "4", "daysAgo" >>

MovedOn(label) == IF label = ThreeDaysAgo THEN FourDaysAgo ELSE label

\* The feeds the drift of the labels is followed for.
DriftFeeds == { f \in Feeds : Len(f) <= 2 }

\* The rendered blocks with the labels they show later.
Relabel(dom) ==
  [i \in 1..Len(dom) |->
     [dom[i] EXCEPT !.time = MovedOn(@),
                    !.replies = [j \in 1..Len(@) |-> [@[j] EXCEPT !.time = MovedOn(@)]]]]

\* document.querySelectorAll('.comment-item, .comment-card, [class*="comment-item"]').length
RECURSIVE NodeCount(_)
NodeCount(dom) ==
  IF dom = << >> THEN 0
  ELSE (IF Head(dom).main THEN 1 ELSE 0) + Len(Head(dom).replies) + NodeCount(Tail(dom))

\* ----------------------------------------------------------- time phrases
\* A displayed text is a sequence of characters; a Chinese word the code
\* looks for is one element, named in English: "today" (jin tian),
\* "yesterday" (zuo tian), "daysAgo" (tian qian), "monthsAgo" (ge yue qian),
\* "yearsAgo" (nian qian), "hoursAgo" (xiao shi qian), "minutesAgo" (fen zhong
\* qian), "editedAt" (bian ji yu), "pinned" (zhi ding), "place" (a location
\* name); " " is white space.
DigitChars == << "0", "1", "2", "3", "4", "5", "6", "7", "8", "9" >>

Digit == { DigitChars[i] : i \in 1..10 }

DigitVal(c) == (CHOOSE i \in 1..10 : DigitChars[i] = c) - 1

\* parseInt of a run of digits
RECURSIVE ParseInt(_)
ParseInt(ds) ==
  IF ds = << >> THEN 0
  ELSE 10 * ParseInt(SubSeq(ds, 1, Len(ds) - 1)) + DigitVal(ds[Len(ds)])

\* Number.prototype.toString / String(n) of a natural number
RECURSIVE NumToString(_)
NumToString(n) ==
  IF n < 10 THEN << DigitChars[n + 1] >>
  ELSE NumToString(n \div 10) \o << DigitChars[(n % 10) + 1] >>

\* s.padStart(2, '0')
PadStart2(s) == IF Len(s) < 2 THEN << "0" >> \o s ELSE s

\* the template `${y}-${pad(m)}-${pad(d)}`
DateString(y, m, d) ==
  NumToString(y) \o << "-" >> \o PadStart2(NumToString(m)) \o << "-" >> \o PadStart2(NumToString(d))

Includes(s, word) == \E i \in 1..Len(s) : s[i] = word

IsDigitAt(s, i) == i >= 1 /\ i <= Len(s) /\ s[i] \in Digit

IsAt(s, i, c) == i >= 1 /\ i <= Len(s) /\ s[i] = c

\* the last index of the run of digits that starts at i
RECURSIVE RunEnd(_, _)
RunEnd(s, i) == IF IsDigitAt(s, i + 1) THEN RunEnd(s, i + 1) ELSE i

\* the first index at or after i that is not white space
RECURSIVE SkipSpace(_, _)
SkipSpace(s, i) == IF IsAt(s, i, " ") THEN SkipSpace(s, i + 1) ELSE i

Least(S) == CHOOSE i \in S : \A j \in S : i <= j

\* s.match(/(\d+)\s*unit/): the captured digits of the leftmost match,
\* << >> when there is none.
AgoMatch(s, unit) ==
  LET starts == { i \in 1..Len(s) :
                    IsDigitAt(s, i) /\ IsAt(s, SkipSpace(s, RunEnd(s, i) + 1), unit) }
  IN IF starts = {} THEN << >>
     ELSE SubSeq(s, Least(starts), RunEnd(s, Least(starts)))

\* the length \d{lo,2} takes at i when a '-' and a digit must follow
\* (greedy: 2 before 1); 0 when it cannot match there.
FirstGroupLen(s, i, lo) ==
  IF IsDigitAt(s, i) /\ IsDigitAt(s, i + 1) /\ IsAt(s, i + 2, "-")
    THEN 2
  ELSE IF lo = 1 /\ IsDigitAt(s, i) /\ IsAt(s, i + 1, "-") THEN 1
  ELSE 0

\* the length \d{lo,2} takes at i as the last group; 0 when it cannot match.
LastGroupLen(s, i, lo) ==
  IF IsDigitAt(s, i) /\ IsDigitAt(s, i + 1) THEN 2
  ELSE IF lo = 1 /\ IsDigitAt(s, i) THEN 1
  ELSE 0

\* s.match(/(\d{lo,2})-(\d{lo,2})/): << month digits, day digits >> of the
\* leftmost match, << >> when there is none.
ShortDateMatch(s, lo) ==
  LET ok(i) == /\ FirstGroupLen(s, i, lo) > 0
               /\ LastGroupLen(s, i + FirstGroupLen(s, i, lo) + 1, lo) > 0
      starts == { i \in 1..Len(s) : ok(i) }
  IN IF starts = {} THEN << >>
     ELSE LET i == Least(starts)
              n == FirstGroupLen(s, i, lo)
              p == i + n + 1
          IN << SubSeq(s, i, i + n - 1), SubSeq(s, p, p + LastGroupLen(s, p, lo) - 1) >>

\* s.match(/(\d{4})-(\d{lo,2})-(\d{lo,2})/): << year, month, day digits >>
\* of the leftmost match, << >> when there is none.
FullDateMatch(s, lo) ==
  LET four(i) == \A k \in 0..3 : IsDigitAt(s, i + k)
      mid(i) == IF FirstGroupLen(s, i + 5, lo) > 0
                   /\ LastGroupLen(s, i + 5 + FirstGroupLen(s, i + 5, lo) + 1, lo) > 0
                  THEN FirstGroupLen(s, i + 5, lo) ELSE 0
      starts == { i \in 1..Len(s) : four(i) /\ IsAt(s, i + 4, "-") /\ mid(i) > 0 }
  IN IF starts = {} THEN << >>
     ELSE LET i == Least(starts)
              n == mid(i)
              p == i + 5 + n + 1
          IN << SubSeq(s, i, i + 3), SubSeq(s, i + 5, i + 5 + n - 1),
                SubSeq(s, p, p + LastGroupLen(s, p, lo) - 1) >>

\* ------------------------------------------------------------------ dates
\* A calendar date [y, m, d] as the local getters of a JavaScript Date give it.
IsLeap(y) == (y % 4 = 0 /\ y % 100 # 0) \/ y % 400 = 0

DaysIn(y, m) ==
  IF m = 2 THEN (IF IsLeap(y) THEN 29 ELSE 28)
  ELSE IF m \in {4, 6, 9, 11} THEN 30 ELSE 31

PrevDay(t) ==
  IF t.d > 1 THEN [t EXCEPT !.d = @ - 1]
  ELSE IF t.m > 1 THEN [y |-> t.y, m |-> t.m - 1, d |-> DaysIn(t.y, t.m - 1)]
  ELSE [y |-> t.y - 1, m |-> 12, d |-> 31]

\* date.setDate(date.getDate() - n)
RECURSIVE SetDateMinus(_, _)
SetDateMinus(t, n) == IF n = 0 THEN t ELSE SetDateMinus(PrevDay(t), n - 1)

\* A day past the end of the month runs over into the next month.
Overflow(y, m, d) ==
  IF d <= DaysIn(y, m) THEN [y |-> y, m |-> m, d |-> d]
  ELSE IF m = 12 THEN [y |-> y + 1, m |-> 1, d |-> d - DaysIn(y, m)]
  ELSE [y |-> y, m |-> m + 1, d |-> d - DaysIn(y, m)]

\* date.setMonth(date.getMonth() - n)
SetMonthMinus(t, n) ==
  LET k == (t.m - 1) - n
  IN Overflow(t.y + (k \div 12), (k % 12) + 1, t.d)

\* date.setFullYear(date.getFullYear() - n)
SetFullYearMinus(t, n) == Overflow(t.y - n, t.m, t.d)

\* fullText.split(/\s+/)
RECURSIVE SplitSpace(_)
SplitSpace(s) ==
  IF ~ Includes(s, " ") THEN << s >>
  ELSE LET i == Least({ k \in 1..Len(s) : s[k] = " " })
       IN << SubSeq(s, 1, i - 1) >> \o SplitSpace(SubSeq(s, SkipSpace(s, i), Len(s)))

\* s.replace(word, '')
RemoveFirst(s, word) ==
  LET i == Least({ k \in 1..Len(s) : s[k] = word })
  IN SubSeq(s, 1, i - 1) \o SubSeq(s, i + 1, Len(s))

\* ------------------------------------- the publish time of a note (noteDetail)
\* tools/noteDetail.ts lines 106-183 (and rednoteTools.ts 344-421): the
\* rules in the order of the else-if chain; << >> when none applies.
PublishTimeRules(timeStr, now) ==
  LET days == AgoMatch(timeStr, "daysAgo")
      months == AgoMatch(timeStr, "monthsAgo")
      years == AgoMatch(timeStr, "yearsAgo")
      short == ShortDateMatch(timeStr, 1)
      full == FullDateMatch(timeStr, 1)
  IN IF Includes(timeStr, "today") THEN DateString(now.y, now.m, now.d)
     ELSE IF Includes(timeStr, "yesterday")
       THEN LET t == SetDateMinus(now, 1) IN DateString(now.y, t.m, t.d)
     ELSE IF days # << >>
       THEN LET t == SetDateMinus(now, ParseInt(days)) IN DateString(now.y, t.m, t.d)
     ELSE IF months # << >>
       THEN LET t == SetMonthMinus(now, ParseInt(months)) IN DateString(t.y, t.m, t.d)
     ELSE IF years # << >>
       THEN LET t == SetFullYearMinus(now, ParseInt(years)) IN DateString(t.y, t.m, t.d)
     ELSE IF AgoMatch(timeStr, "hoursAgo") # << >> THEN DateString(now.y, now.m, now.d)
     ELSE IF AgoMatch(timeStr, "minutesAgo") # << >> THEN DateString(now.y, now.m, now.d)
     ELSE IF short # << >>
       THEN DateString(now.y, ParseInt(short[1]), ParseInt(short[2]))
     ELSE IF full # << >>
       THEN DateString(ParseInt(full[1]), ParseInt(full[2]), ParseInt(full[3]))
     ELSE << >>

\* lines 80-189: the text of the .date element split at white space, the
\* qualifier taken off the first part, the rules, and the whole text when
\* no rule gave a date. With the qualifier as the only part, parts[1] is
\* undefined and timeStr.includes raises a TypeError (threw).
NormalizePublishTime(fullText, now) ==
  LET parts == SplitSpace(fullText)
      standalone == parts[1] = << "editedAt" >>
      timeStr == IF standalone THEN parts[2]
                 ELSE IF Includes(parts[1], "editedAt") THEN RemoveFirst(parts[1], "editedAt")
                 ELSE parts[1]
  IN IF standalone /\ Len(parts) < 2
       THEN [threw |-> TRUE, value |-> << >>]
     ELSE [threw |-> FALSE,
           value |-> IF PublishTimeRules(timeStr, now) = << >> THEN fullText
                     ELSE PublishTimeRules(timeStr, now)]

\* ------------------------------------ RedNoteTools.convertToStandardDate
\* lines 63-123. today is local midnight and toISOString() prints it in
\* UTC: in a zone ahead of UTC (east) that is the day before.
ConvertToStandardDate(timeStr, now, east) ==
  LET iso(t) == LET u == IF east THEN PrevDay(t) ELSE t IN DateString(u.y, u.m, u.d)
      days == AgoMatch(timeStr, "daysAgo")
      months == AgoMatch(timeStr, "monthsAgo")
      years == AgoMatch(timeStr, "yearsAgo")
      short == ShortDateMatch(timeStr, 2)
  IN IF Includes(timeStr, "today") THEN iso(now)
     ELSE IF Includes(timeStr, "yesterday") THEN iso(SetDateMinus(now, 1))
     ELSE IF days # << >> THEN iso(SetDateMinus(now, ParseInt(days)))
     ELSE IF months # << >> THEN iso(SetMonthMinus(now, ParseInt(months)))
     ELSE IF years # << >> THEN iso(SetFullYearMinus(now, ParseInt(years)))
     ELSE IF short # << >>
       THEN DateString(now.y, ParseInt(short[1]), ParseInt(short[2]))
     ELSE IF FullDateMatch(timeStr, 2) # << >> THEN timeStr
     ELSE << >>

\* ------------------------------------------- RedNoteTools.extractRedBookUrl
\* A share text is a sequence of: "X" (the opening 'http://xhslink.com/' or
\* 'https://xhslink.com/'), "W" (the opening of a xiaohongshu.com URL, with or
\* without 'www.', up to its first '/'), "a" (a letter, digit or '/'), " "
\* (white space), "," (the full-width comma).
UrlChars == { "X", "W", "a", " ", "," }

\* the last index of the run of elements of set that starts at i
RECURSIVE RunEndIn(_, _, _)
RunEndIn(s, i, set) ==
  IF i + 1 <= Len(s) /\ s[i + 1] \in set THEN RunEndIn(s, i + 1, set) ELSE i

\* The leftmost match of open followed by one or more elements of set, the
\* run taken as far as it goes; << >> when there is none.
UrlMatch(s, open, set) ==
  LET starts == { i \in 1..Len(s) : s[i] = open /\ i + 1 <= Len(s) /\ s[i + 1] \in set }
  IN IF starts = {} THEN << >>
     ELSE SubSeq(s, Least(starts), RunEndIn(s, Least(starts) + 1, set))

\* extractRedBookUrl with the two patterns tried in the other order.
ExtractRedBookUrlLongFirst(shareText) ==
  IF UrlMatch(shareText, "W", UrlChars \ {",", " "}) # << >>
    THEN UrlMatch(shareText, "W", UrlChars \ {",", " "})
  ELSE IF UrlMatch(shareText, "X", {"a"}) # << >> THEN UrlMatch(shareText, "X", {"a"})
  ELSE shareText

\* lines 183-201: /(https?:\/\/xhslink\.com\/[a-zA-Z0-9\/]+)/i first, then
\* /(https?:\/\/(?:www\.)?xiaohongshu\.com\/[^, \s]+)/i, else the text itself.
ExtractRedBookUrl(shareText) ==
  IF UrlMatch(shareText, "X", {"a"}) # << >> THEN UrlMatch(shareText, "X", {"a"})
  ELSE IF UrlMatch(shareText, "W", UrlChars \ {",", " "}) # << >>
    THEN UrlMatch(shareText, "W", UrlChars \ {",", " "})
  ELSE shareText

\* ------------------------------------------------------------ the requests
\* The share texts a request may carry.
Texts == UNION { [1..n -> UrlChars] : n \in 0..MaxText }

NoteUrl == << "W", "a" >>

\* The texts the .date element of a note may show: each rule's phrase, bare,
\* behind the qualifier as a word of its own or fused to it, with or without
\* a place after it; and texts no rule knows.
Numbers == { NumToString(n) : n \in 0..MaxAgo }

DateParts == { << "0", "5" >>, << "5" >>, << "0", "2" >>, << "1", "2" >> }

TimePhrases ==
  { << "today" >>, << "yesterday" >>, << "pinned" >>, << >> }
  \cup { n \o << unit >> : n \in Numbers,
          unit \in {"daysAgo", "monthsAgo", "yearsAgo", "hoursAgo", "minutesAgo"} }
  \cup { m \o << "-" >> \o d : m \in DateParts, d \in DateParts }
  \cup { << "2", "0", "2", "3", "-" >> \o m \o << "-" >> \o d : m \in DateParts, d \in DateParts }

DateTexts ==
  { q \o p \o l : q \in { << >>, << "editedAt" >>, << "editedAt", " " >> },
                  p \in TimePhrases \ { << >> },
                  l \in { << >>, << " ", "place" >> } }
  \cup { << >>, << "editedAt" >>, << "editedAt", " ", "place" >> }

NoDay == [y |-> 0, m |-> 0, d |-> 0]

\* The days a request may run on.
Nows == { [y |-> 2024, m |-> 5, d |-> 10], [y |-> 2024, m |-> 1, d |-> 2],
          [y |-> 2024, m |-> 3, d |-> 31], [y |-> 2023, m |-> 1, d |-> 1] }

\* ------------------------------------------------- the snapshot extractor
\* line 642 / 661: the placeholder content, the four Chinese characters for
\* "picture comment" in square brackets, written here in ASCII.
PictureComment == "[picture comment]"

\* lines 636-639: one [image:src] marker per img that has a src.
RECURSIVE ImageMarkers(_)
ImageMarkers(imgs) ==
  IF imgs = << >> THEN ""
  ELSE (IF Head(imgs) # "" THEN "[image:" \o Head(imgs) \o "]" ELSE "")
       \o ImageMarkers(Tail(imgs))

\* CommentContent without the fallback of lines 641-643.
CommentContentNoFallback(text, imgs) == text \o ImageMarkers(imgs)

\* lines 633-643 (653-662 for a reply): the text, then the markers of the
\* imgs found, and the placeholder when that is empty although imgs were
\* found.
CommentContent(text, imgs) ==
  LET content == text \o ImageMarkers(imgs)
  IN IF content = "" /\ Len(imgs) > 0 THEN PictureComment ELSE content

\* line 635: block.querySelectorAll('.comment-picture img') finds the imgs of
\* the primary comment and of every reply node rendered in the block.
RECURSIVE ReplyImgs(_)
ReplyImgs(nodes) ==
  IF nodes = << >> THEN << >> ELSE Head(nodes).imgs \o ReplyImgs(Tail(nodes))

BlockImgs(b) == b.imgs \o ReplyImgs(b.replies)

\* ExtractReplies without the filter of line 672.
ExtractRepliesUnfiltered(nodes) ==
  [i \in 1..Len(nodes) |->
     [author |-> nodes[i].author,
      content |-> CommentContent(nodes[i].text, nodes[i].imgs),
      likes |-> nodes[i].likes, time |-> nodes[i].time]]

\* lines 650-672: the reply nodes of a block, those without author or
\* content filtered out.
ExtractReplies(nodes) ==
  SelectSeq([i \in 1..Len(nodes) |->
               [author |-> nodes[i].author,
                content |-> CommentContent(nodes[i].text, nodes[i].imgs),
                likes |-> nodes[i].likes, time |-> nodes[i].time]],
            LAMBDA r : r.author # "" /\ r.content # "")

\* lines 626-682: one record per block that has a primary comment node,
\* an author and a content; the others are dropped.
RECURSIVE ExtractComments(_)
ExtractComments(dom) ==
  IF dom = << >> THEN << >>
  ELSE LET b == Head(dom)
           rec == [author |-> b.author, content |-> CommentContent(b.text, BlockImgs(b)),
                   likes |-> b.likes, time |-> b.time,
                   replies |-> ExtractReplies(b.replies)]
       IN (IF b.main /\ rec.author # "" /\ rec.content # "" THEN << rec >> ELSE << >>)
          \o ExtractComments(Tail(dom))

\* ------------------------------------------------------ the dedup merge
\* lines 687-691: the identity test of the filter.
SameComment(existing, comment) ==
  /\ existing.author = comment.author
  /\ existing.content = comment.content
  /\ existing.time = comment.time

\* NewComments without the filter: every record of the snapshot is new.
NewCommentsUnfiltered(all, current) == current

\* lines 686-692: the records of the snapshot not yet in the accumulator.
NewComments(all, current) ==
  SelectSeq(current, LAMBDA comment :
              ~ \E i \in 1..Len(all) : SameComment(all[i], comment))

\* Merge overwriting the accumulator with the snapshot.
MergeReplace(all, current) == current

\* Merge bringing the records it already holds up to date with the
\* snapshot's record of the same comment.
MergeRefresh(all, current) ==
  NewComments(all, current) \o
    [i \in 1..Len(all) |->
       IF \E k \in 1..Len(current) : SameComment(all[i], current[k])
         THEN current[CHOOSE k \in 1..Len(current) : SameComment(all[i], current[k])]
       ELSE all[i]]

\* Merge keeping the new records only.
MergeNewOnly(all, current) == NewComments(all, current)

\* Merge appending the new records instead of prepending them.
MergeAppend(all, current) == all \o NewComments(all, current)

\* line 699: allComments = [...newComments, ...allComments]
Merge(all, current) == NewComments(all, current) \o all

\* lines 704-706: top-level records plus their replies.
RECURSIVE TotalComments(_)
TotalComments(all) ==
  IF all = << >> THEN 0
  ELSE 1 + Len(Head(all).replies) + TotalComments(Tail(all))

\* ------------------------------------------------------ the reveal step
\* String.toUpperCase, on the texts the comments of the feeds have.
ToUpperCase(s) ==
  CASE s = "the end" -> "THE END"
    [] s = "hi" -> "HI"
    [] s = "ok" -> "OK"
    [] s = "yo" -> "YO"
    [] s = "" -> ""

\* .includes('THE END'), on those texts.
IncludesTheEnd(s) == s = "THE END"

\* lines 756-758 (982-984): some element of the container has 'THE END' in
\* its upper-cased text. The rendered comment nodes are elements of the
\* container like the page's own end marker.
RECURSIVE SaysTheEnd(_)
SaysTheEnd(dom) ==
  IF dom = << >> THEN FALSE
  ELSE \/ IncludesTheEnd(ToUpperCase(Head(dom).text))
       \/ \E j \in 1..Len(Head(dom).replies) :
            IncludesTheEnd(ToUpperCase(Head(dom).replies[j].text))
       \/ SaysTheEnd(Tail(dom))

\* Whether the comments of feed f rendered at a reveal step say it.
SaidNow(f) == { SaysTheEnd(dom) : dom \in Renderings(f) }

NoResult ==
  [reachedEnd |-> FALSE, message |-> "", hasEndText |-> FALSE, scrolled |-> FALSE,
   error |-> ""]

\* ScrollOutcome with the catch of line 810 reporting the end of the feed.
ScrollOutcomeErrorEnds(container, endText, act) ==
  IF container /\ ~endText /\ act = "throws"
    THEN [reachedEnd |-> TRUE, message |-> "Error during scroll attempt",
          hasEndText |-> FALSE, scrolled |-> FALSE, error |-> "scroll failed"]
  ELSE IF ~container \/ endText
    THEN [reachedEnd |-> TRUE, message |-> "", hasEndText |-> endText,
          scrolled |-> FALSE, error |-> ""]
  ELSE [reachedEnd |-> FALSE, message |-> "", hasEndText |-> FALSE,
        scrolled |-> (act = "moved"), error |-> ""]

\* ScrollOutcome with a missing container reported as a scroll that did not
\* move instead of the end of the feed.
ScrollOutcomeNoContainerGoesOn(container, endText, act) ==
  [reachedEnd |-> container /\ endText,
   message |-> IF ~container THEN "No scrollable container found"
               ELSE IF endText THEN "THE END text detected in comments dialog"
               ELSE IF act = "throws" THEN "Error during scroll attempt"
               ELSE IF act = "moved" THEN "Scroll successful"
               ELSE "Scroll may not have worked",
   hasEndText |-> container /\ endText,
   scrolled |-> container /\ ~endText /\ act = "moved",
   error |-> IF container /\ ~endText /\ act = "throws" THEN "scroll failed" ELSE ""]

\* lines 732-818 (and 958-1044): the value the in-page scroll function
\* resolves to. container: some candidate has overflow scroll/auto and
\* scrollHeight > clientHeight; endText: an element of the container has
\* 'THE END' in its upper-cased text (the page's end marker or a comment
\* that says so); act: what setting scrollTop and calling
\* scrollTo did ("moved", "stuck", or "throws", caught at line 810).
ScrollOutcome(container, endText, act) ==
  IF ~container
    THEN [NoResult EXCEPT !.reachedEnd = TRUE,
                          !.message = "No scrollable container found"]
  ELSE IF endText
    THEN [NoResult EXCEPT !.reachedEnd = TRUE, !.hasEndText = TRUE,
                          !.message = "THE END text detected in comments dialog"]
  ELSE IF act = "throws"
    THEN [NoResult EXCEPT !.message = "Error during scroll attempt",
                          !.error = "scroll failed"]
  ELSE [NoResult EXCEPT !.scrolled = (act = "moved"),
                        !.message = IF act = "moved" THEN "Scroll successful"
                                    ELSE "Scroll may not have worked"]

\* lines 779-818 (and 1005-1044): what has been waited when the scroll
\* function has resolved to r. Without a container or with the end text
\* nothing was scrolled; after scrollTop is set the promise resolves from a
\* 100 ms timer (line 786), unless scrollTo threw and line 812 returned
\* at once.
AfterScrollStep(r, was) ==
  IF r.reachedEnd THEN was
  ELSE IF r.error # "" THEN "none"
  ELSE "timer"

\* The pages the scroll function tells apart: << container, endText, act >>.
ScrollPages ==
  { << FALSE, FALSE, "stuck" >>, << TRUE, TRUE, "stuck" >>, << TRUE, FALSE, "moved" >>,
    << TRUE, FALSE, "stuck" >>, << TRUE, FALSE, "throws" >> }

\* ---------------------------------------------------------------- cleanup
\* cleanup without the .catch of line 167: a rejected page.close() jumps to
\* the catch of line 175 and the browser is never asked to close.
CleanupStopsAtPage(p, b, pRes, bRes, pageOk, browserOk) ==
  [page |-> "null",
   browser |-> "null",
   pageRes |-> IF p # "null" THEN (IF pageOk THEN "closed" ELSE "closeRejected")
               ELSE pRes,
   browserRes |-> IF b # "null" /\ (p = "null" \/ pageOk)
                    THEN (IF browserOk THEN "closed" ELSE "closeRejected")
                  ELSE bRes]

\* cleanup closing whatever was ever opened, the fields being null or not.
CleanupIgnoresNull(p, b, pRes, bRes, pageOk, browserOk) ==
  [page |-> "null",
   browser |-> "null",
   pageRes |-> IF pRes # "none" THEN (IF pageOk THEN "closed" ELSE "closeRejected")
               ELSE pRes,
   browserRes |-> IF bRes # "none" THEN (IF browserOk THEN "closed" ELSE "closeRejected")
                  ELSE bRes]

\* lines 163-181: close() is awaited on the page and on the browser when the
\* field is set; a rejected close() is logged by the .catch and the field is
\* nulled all the same. pageOk/browserOk: whether the close() resolves.
Cleanup(p, b, pRes, bRes, pageOk, browserOk) ==
  [page |-> "null",
   browser |-> "null",
   pageRes |-> IF p # "null" THEN (IF pageOk THEN "closed" ELSE "closeRejected")
               ELSE pRes,
   browserRes |-> IF b # "null" THEN (IF browserOk THEN "closed" ELSE "closeRejected")
                  ELSE bRes]

\* ------------------------------------------------------------------ state
VARIABLES
  pc,              \* position of the one request
  op,              \* the command: "comments", "content" or "search"
  feed,            \* the comment blocks that exist on the note
  url,             \* the share text the command is given
  dateText,        \* the text of the note's .date element
  now,             \* the day the request runs on
  limit,           \* the limit a search is given
  loginSeen,       \* the last login check found the indicator (line 145)
  navigated,       \* page.goto was called with the request's target
  actualURL,       \* the URL it was called with
  detail,          \* << >>, or << note >> once getNoteContent returns note
  items,           \* the note items found on the result page (line 220)
  idx,             \* the loop variable i of line 225
  notes,           \* the notes array of line 222
  opened,          \* note dialogs the search has opened (line 243)
  covers,          \* per note item gone through: the cover clicks that failed and succeeded
  browser, page,   \* RedNoteTools.browser / .page: "null" or "set"
  browserRes, pageRes, \* the resource: "none", "open", "closed", "closeRejected"
  commentCount,    \* the target probed once (line 523)
  allComments,     \* the accumulator (line 600)
  seen,            \* the triples of all snapshots extracted so far
  currentComments, \* the last snapshot (line 603)
  view,            \* the blocks rendered when that snapshot was read
  scrollResult,    \* the last reveal outcome (lines 713, 939)
  controls,        \* the div.show-more elements of the dialog, in document order
  created,         \* expand controls the page has created so far
  expandRet,       \* where expandAllCommentReplies returns to
  result,          \* << >>, or << list >> once RedNoteTools.getNoteComments returns list
  error,           \* the message of the error in flight ("" for none)
  outcome,         \* of the command: "none", "returned", "thrown"
  thrown,          \* the Error the command throws
  polls, reveals,  \* snapshot extractions / reveal calls of the collection loop
  collectExit,     \* how the collection loop ended
  endAt,           \* the reveal call that first reported reachedEnd (0: none yet)
  endFound,        \* line 756 found an element with the end text
  clicked,         \* line 561 has asked the page to click the comment button
  timeoutOpt,      \* options.timeout of a login (0: not given)
  elapsed,         \* whole seconds since startTime (authManager.ts line 89)
  observed,        \* an evaluate of the login found the logged-in indicator
  cookiesSaved,    \* CookieManager.saveCookies has written the cookie file
  contextRes, loginPageRes, \* the login's context and page: "none", "open", ...
  drift,           \* the relative time labels of the page move on during the request
  unmarkedEnd,     \* a reveal step reported the end text found (lines 756-766,
                   \* 982-992) while the page's end marker was not in the container
  notesSheet, commentsSheet,       \* ExcelExporter: the two work sheets
  noteMap,                         \* url -> id (0: no entry)
  noteIdCounter, commentIdCounter, \* the next ids
  written,         \* the comments last passed to appendComments, the rows made of
                   \* them, and the note last passed to appendNote for each url
  combinedOnly,    \* the exporter was only ever called through appendNoteWithComments
  calls,           \* the calls made on the exporter
  pagesOpened,     \* the calls of browser.newPage (line 133) that have returned a page
  settle           \* what has been waited since the last scroll or expand click:
                   \* "waited" (a waitForTimeout, or nothing to wait for),
                   \* "timer" (the 100 ms timer of the scroll function only), "none"

vars == << pc, feed, browser, page, browserRes, pageRes, commentCount, allComments, seen,
           currentComments, scrollResult, controls, created, expandRet,
           result, error, outcome, thrown, polls, reveals, collectExit, endAt,
           endFound, clicked, view,
           op, url, dateText, now, limit, loginSeen, navigated, actualURL, detail,
           items, idx, notes, opened, covers,
           timeoutOpt, elapsed, observed, cookiesSaved, contextRes, loginPageRes,
           drift, unmarkedEnd, settle, pagesOpened,
           notesSheet, commentsSheet, noteMap, noteIdCounter, commentIdCounter,
           written, combinedOnly, calls >>

\* The exporter of the results; no step of a retrieval touches it.
exporter == << notesSheet, commentsSheet, noteMap, noteIdCounter, commentIdCounter,
              written, combinedOnly, calls >>

\* The note URLs exported.
Urls == {"n1", "n2"}

\* lines 80-88 and 111-137 with no file there: empty sheets, counters at 1,
\* an empty noteMap.
NewExporter ==
  /\ notesSheet = << >> /\ commentsSheet = << >>
  /\ noteMap = [u \in Urls |-> 0]
  /\ noteIdCounter = 1 /\ commentIdCounter = 1
  /\ written = [comments |-> << >>, rows |-> << >>, last |-> [u \in Urls |-> << >>]]
  /\ combinedOnly = TRUE
  /\ calls = 0

\* What the request is made on; no step changes it.
inputs == << feed, op, limit, drift >>

\* What the request has read of its argument, the page and the clock.
read == << url, dateText, now >>

gate == << loginSeen, navigated, actualURL >>

otherOps == << detail, items, idx, notes, opened, covers >>

\* What AuthManager.login works on.
session == << timeoutOpt, elapsed, observed, cookiesSaved, contextRes, loginPageRes >>

resources == << browser, page, browserRes, pageRes >>
pageEnv == << controls, created >>
loopVars == << allComments, seen, currentComments, scrollResult, polls, reveals, collectExit,
              endAt, endFound, view >>

NoError == [prefix |-> "", cause |-> ""]

Init ==
  /\ pc = "start"
  /\ \/ op = "comments" /\ feed \in Feeds /\ limit = 0 /\ timeoutOpt = 0
     \/ op = "content" /\ feed = << >> /\ limit = 0 /\ timeoutOpt = 0
     \/ op = "search" /\ feed = << >> /\ limit \in 0..MaxLimit /\ timeoutOpt = 0
     \/ op = "login" /\ feed = << >> /\ limit = 0 /\ timeoutOpt \in 0..MaxTimeout
  /\ elapsed = 0 /\ observed = FALSE /\ cookiesSaved = FALSE
  /\ contextRes = "none" /\ loginPageRes = "none"
  /\ unmarkedEnd = FALSE
  /\ settle = "waited"
  /\ pagesOpened = 0
  /\ drift \in (IF op = "comments" /\ feed \in DriftFeeds THEN BOOLEAN ELSE {FALSE})
  /\ url = << >> /\ dateText = << >> /\ now = NoDay
  /\ loginSeen = FALSE /\ navigated = FALSE /\ actualURL = << >>
  /\ detail = << >> /\ items = 0 /\ idx = 0 /\ notes = << >> /\ opened = 0 /\ covers = << >>
  /\ browser = "null" /\ page = "null"
  /\ browserRes = "none" /\ pageRes = "none"
  /\ commentCount = 0
  /\ allComments = << >> /\ currentComments = << >> /\ seen = { }
  /\ scrollResult = NoResult
  /\ controls = << >> /\ created = 0
  /\ expandRet = ""
  /\ result = << >> /\ error = "" /\ outcome = "none"
  /\ thrown = NoError
  /\ polls = 0 /\ reveals = 0 /\ collectExit = "none"
  /\ endAt = 0 /\ endFound = FALSE
  /\ clicked = FALSE
  /\ view = << >>
  /\ NewExporter

Bump(n) == IF n < MaxCount THEN n + 1 ELSE n

\* An exception leaves RedNoteTools.getNoteComments through its catch
\* (lines 588-590, log and rethrow) to its finally.
Throw(msg) ==
  /\ error' = msg
  /\ pc' = "finally"

\* --------------------------------------------------- RedNoteTools.initialize
InitOutcomes == {"launchFails", "newPageFails", "checkFails", "notLoggedIn", "ok"}

InitError(how) ==
  CASE how = "launchFails"  -> "browser launch failed"
    [] how = "newPageFails" -> "newPage failed"
    [] how = "checkFails"   -> "login check failed"
    [] how = "notLoggedIn"  -> "Not logged in"

\* InitFails with a missing login indicator let through.
InitFailsUnlessLoggedOut(how) == how \notin {"ok", "notLoggedIn"}

\* lines 128-130, 133-154: what makes initialize throw.
InitFails(how) == how # "ok"

\* line 133: every call of initialize that gets past getBrowser asks the
\* browser for a new page and assigns it to this.page.
NewPage(how, n) ==
  IF how \in {"launchFails", "newPageFails"} THEN n ELSE n + 1

\* lines 125-161. The comments command leaves the call to
\* RedNoteTools.getNoteComments (line 515); the content and search commands
\* call it themselves (getNoteContent.ts line 14, searchNotes.ts line 16)
\* before the tool method calls it again (lines 495, 206), where getBrowser
\* hands out the browser it already launched and this.page is overwritten
\* with a new page. getBrowser (line 127) is outside the try; everything
\* from newPage on is inside it and its catch runs cleanup.
Initialize ==
  /\ pc \in {"start", "tool_init"} /\ op # "login"
  /\ \E how \in InitOutcomes, pageOk \in BOOLEAN, browserOk \in BOOLEAN :
       LET inTool == op = "comments" \/ pc = "tool_init"
           p == IF how = "newPageFails" THEN page ELSE "set"
           pRes == IF how = "newPageFails" THEN pageRes ELSE "open"
           c == Cleanup(p, "set", pRes, "open", pageOk, browserOk)
       IN /\ pc = "tool_init" => how # "launchFails"
          /\ IF ~ InitFails(how)
               THEN /\ browser' = "set" /\ browserRes' = "open"
                    /\ page' = "set" /\ pageRes' = "open"
                    /\ pc' = IF inTool THEN "goto" ELSE "tool_init"
                    /\ UNCHANGED error
             ELSE /\ IF how = "launchFails"
                       THEN UNCHANGED resources
                       ELSE /\ browser' = c.browser /\ browserRes' = c.browserRes
                            /\ page' = c.page /\ pageRes' = c.pageRes
                  /\ error' = InitError(how)
                  /\ pc' = IF inTool THEN "finally" ELSE "command"
          /\ loginSeen' = IF how = "ok" THEN TRUE
                          ELSE IF how = "notLoggedIn" THEN FALSE ELSE loginSeen
          /\ pagesOpened' = NewPage(how, pagesOpened)
  /\ UNCHANGED << inputs, exporter, session, settle, unmarkedEnd, read, otherOps, navigated, actualURL, clicked, commentCount, pageEnv,
                  expandRet, result, outcome, thrown, loopVars >>

\* ---------------------------------------------- RedNoteTools.getNoteComments
\* line 211: the address of the result page for the keywords.
SearchUrl == << "W", "a", "a" >>

\* lines 518-520 and 498-499: page.goto(extractRedBookUrl(url)), url being
\* the share text the command was given (the comment retrieval is followed
\* for one of them); line 211: page.goto of the result page.
Navigate ==
  /\ pc = "goto"
  /\ navigated' = TRUE
  /\ url' \in IF op = "content" THEN Texts ELSE { NoteUrl }
  /\ actualURL' = IF op = "search" THEN SearchUrl ELSE ExtractRedBookUrl(url')
  /\ \E ok \in BOOLEAN :
       IF ok
         THEN /\ pc' = CASE op = "comments" -> "probe"
                         [] op = "content" -> "detail"
                         [] op = "search" -> "search_list"
              /\ UNCHANGED error
       ELSE Throw("navigation failed")
  /\ UNCHANGED << inputs, exporter, pagesOpened, session, settle, unmarkedEnd, dateText, now, otherOps, loginSeen, clicked, resources,
                  commentCount, pageEnv, expandRet, result, outcome, thrown, loopVars >>

\* ProbeCount without the early return of lines 554-557.
ProbeCountNoShortCircuit ==
  /\ pc = "probe"
  /\ \E ok \in BOOLEAN, label \in 0..MaxTarget, dom \in Renderings(feed) :
       IF ~ok
         THEN Throw("count probe failed") /\ UNCHANGED commentCount
       ELSE /\ commentCount' = IF label > 0 THEN label ELSE NodeCount(dom)
            /\ pc' = "open"
            /\ UNCHANGED error
  /\ UNCHANGED << inputs, exporter, pagesOpened, session, settle, unmarkedEnd, read, otherOps, gate, clicked, resources, pageEnv, expandRet, result, outcome, thrown,
                  loopVars >>

\* lines 523-557: the first count label with a positive number (label, 0 when
\* there is none), else the number of rendered comment nodes; 0 returns [].
ProbeCount ==
  /\ pc = "probe"
  /\ \E ok \in BOOLEAN, label \in 0..MaxTarget, dom \in Renderings(feed) :
       LET count == IF label > 0 THEN label ELSE NodeCount(dom)
       IN IF ~ok
            THEN Throw("count probe failed") /\ UNCHANGED << commentCount, result >>
          ELSE /\ commentCount' = count
               /\ IF count = 0
                    THEN result' = << << >> >> /\ pc' = "finally"
                    ELSE result' = result /\ pc' = "open"
               /\ UNCHANGED error
  /\ UNCHANGED << inputs, exporter, pagesOpened, session, settle, unmarkedEnd, read, otherOps, gate, clicked, resources, pageEnv, expandRet, outcome, thrown, loopVars >>

\* A div.show-more element: shown says it is visible (offsetParent is not
\* null) and its text matches one of the keywords; expanded is the
\* data-expanded attribute; clicks counts the click() calls made on it.
\* The controls the page renders anew, at most n of them.
NewControls(n) ==
  UNION { [1..k -> [shown : BOOLEAN, expanded : {FALSE}, clicks : {0}]] : k \in 0..n }

\* Candidates looked for at the head of the document only.
CandidatesHeadOnly(cs) ==
  SelectSeq(IF cs = << >> THEN << >> ELSE << 1 >>, LAMBDA i : cs[i].shown /\ ~ cs[i].expanded)

\* Candidates with marked controls still taken.
CandidatesIgnoringMark(cs) ==
  SelectSeq([i \in 1..Len(cs) |-> i], LAMBDA i : cs[i].shown)

\* lines 880-893: the candidates of a round, in document order.
Candidates(cs) ==
  SelectSeq([i \in 1..Len(cs) |-> i], LAMBDA i : cs[i].shown /\ ~ cs[i].expanded)

\* lines 559-569: click the comment button, wait for the dialog and for the
\* first comment node (a note without any never gets past line 568), wait
\* 2 s. The dialog holds some expand controls.
OpenDialog ==
  /\ pc = "open"
  /\ \E ok \in BOOLEAN, new \in NewControls(MaxControls) :
       IF ok /\ NodeCount(feed) > 0
         THEN /\ pc' = "load_view"
              /\ controls' = new /\ created' = Len(new)
              /\ UNCHANGED error
         ELSE Throw("dialog not found") /\ UNCHANGED << controls, created >>
  /\ clicked' = TRUE
  /\ UNCHANGED << inputs, exporter, pagesOpened, session, settle, unmarkedEnd, read, otherOps, gate, resources, commentCount, expandRet, result, outcome,
                  thrown, loopVars >>

\* ------------------------------------------------ scrollAndLoadAllComments
\* lines 919-933: a new iteration (its scrollResult not yet assigned) counts
\* the nodes in view (logged only), then starts the expansion sweep.
LoadView ==
  /\ pc = "load_view"
  /\ \E ok \in BOOLEAN :
       IF ok THEN pc' = "expand" /\ expandRet' = "load_settle" /\ UNCHANGED error
       ELSE Throw("evaluate failed") /\ UNCHANGED expandRet
  /\ scrollResult' = NoResult
  /\ UNCHANGED << inputs, exporter, pagesOpened, session, settle, unmarkedEnd, read, otherOps, gate, clicked, resources, commentCount, pageEnv, result, outcome, thrown,
                  allComments, seen, currentComments, polls, reveals, collectExit, endAt,
                  endFound, view >>

\* lines 858-904, one round of expandAllCommentReplies: the first candidate
\* is marked and clicked (the count of its clicks stops at 2); no candidate
\* ends the sweep.
ExpandRound ==
  /\ pc = "expand"
  /\ \E ok \in BOOLEAN :
       IF ~ok THEN Throw("evaluate failed") /\ UNCHANGED << controls, settle >>
       ELSE /\ IF Candidates(controls) # << >>
                 THEN /\ controls' =
                           [controls EXCEPT
                              ![Candidates(controls)[1]].expanded = TRUE,
                              ![Candidates(controls)[1]].clicks = IF @ < 2 THEN @ + 1 ELSE @]
                      /\ settle' = "none"
                      /\ pc' = "expand_wait"
                 ELSE controls' = controls /\ pc' = expandRet /\ UNCHANGED settle
            /\ UNCHANGED error
  /\ UNCHANGED << inputs, exporter, pagesOpened, session, unmarkedEnd, read, otherOps, gate, clicked, resources, commentCount, created, expandRet, result,
                  outcome, thrown, loopVars >>

\* lines 905-908: waitForTimeout(500); the click may have made the page
\* render further controls, below or above the ones there are.
ExpandWait ==
  /\ pc = "expand_wait"
  /\ \E new \in NewControls(MaxControls - created), below \in BOOLEAN :
       /\ controls' = IF below THEN controls \o new ELSE new \o controls
       /\ created' = created + Len(new)
  /\ pc' = "expand"
  /\ settle' = "waited"
  /\ UNCHANGED << inputs, exporter, pagesOpened, session, unmarkedEnd, read, otherOps, gate, clicked, resources, commentCount, expandRet, result, error,
                  outcome, thrown, loopVars >>

\* lines 935 and 1066: waitForTimeout(2000)
LoadSettle ==
  /\ pc \in {"load_settle", "load_settle2"}
  /\ pc' = IF pc = "load_settle" THEN "load_scroll" ELSE "load_check"
  /\ settle' = "waited"
  /\ UNCHANGED << inputs, exporter, pagesOpened, session, unmarkedEnd, read, otherOps, gate, clicked, resources, commentCount, pageEnv, expandRet, result, error,
                  outcome, thrown, loopVars >>

\* scrollAndLoadAllComments returns (line 572) and scrollAndCollectAllComments
\* starts. expandAllCommentReplies is called from the pre-pass only: the
\* expand controls of the page are not followed any further, and the
\* pre-pass's scrollResult is gone with its frame.
EndPrePass ==
  /\ pc' = "collect_poll"
  /\ controls' = << >> /\ created' = 0
  /\ scrollResult' = NoResult

\* lines 939-1064: one reveal step of the pre-pass; reachedEnd leaves the
\* loop, and with it scrollAndLoadAllComments (line 572 returns).
LoadScroll ==
  /\ pc = "load_scroll"
  /\ \E ok \in BOOLEAN, pg \in ScrollPages, said \in SaidNow(feed) :
       LET r == ScrollOutcome(pg[1], pg[2] \/ said, pg[3])
       IN IF ~ok
            THEN Throw("evaluate failed")
                 /\ UNCHANGED << scrollResult, expandRet, pageEnv, unmarkedEnd, settle >>
          ELSE /\ unmarkedEnd' = (unmarkedEnd \/ (r.hasEndText /\ ~ pg[2]))
               /\ settle' = AfterScrollStep(r, settle)
               /\ IF r.reachedEnd
                    THEN EndPrePass /\ UNCHANGED expandRet
                    ELSE /\ pc' = "expand" /\ expandRet' = "load_settle2"
                         /\ scrollResult' = r
                         /\ UNCHANGED pageEnv
               /\ UNCHANGED error
  /\ UNCHANGED << inputs, exporter, pagesOpened, session, read, otherOps, gate, clicked, resources, commentCount, result, outcome, thrown, allComments, seen,
                  currentComments, polls, reveals, collectExit, endAt, endFound, view >>

\* lines 1068-1075: no comment node rendered leaves the loop.
LoadCheck ==
  /\ pc = "load_check"
  /\ \E ok \in BOOLEAN, dom \in Renderings(feed) :
       IF ~ok THEN Throw("evaluate failed") /\ UNCHANGED << pageEnv, scrollResult >>
       ELSE /\ IF NodeCount(dom) > 0
                 THEN pc' = "load_view" /\ UNCHANGED << pageEnv, scrollResult >>
                 ELSE EndPrePass
            /\ UNCHANGED error
  /\ UNCHANGED << inputs, exporter, pagesOpened, session, settle, unmarkedEnd, read, otherOps, gate, clicked, resources, commentCount, expandRet, result, outcome, thrown,
                  allComments, seen, currentComments, polls, reveals, collectExit, endAt,
                  endFound, view >>

\* --------------------------------------------- scrollAndCollectAllComments
\* Return without the break of line 829: a reachedEnd outcome goes on to
\* the settle wait.
ReturnUnlessEnd(all, why) ==
  IF why = "reachedEnd"
    THEN pc' = "collect_settle" /\ UNCHANGED << result, collectExit >>
  ELSE result' = << all >> /\ collectExit' = why /\ pc' = "finally"

\* The loop's break and the return of lines 849 and 575-587.
Return(all, why) ==
  /\ result' = << all >>
  /\ collectExit' = why
  /\ pc' = "finally"

\* lines 603-710: a new iteration (its scrollResult not yet assigned)
\* extracts the snapshot, merges it, and leaves when the total reaches the
\* target. On a page whose labels drift every snapshot after the first
\* finds the labels moved on.
CollectPoll ==
  /\ pc = "collect_poll"
  /\ \E ok \in BOOLEAN, shown \in Renderings(feed) :
       LET dom == IF drift /\ polls > 0 THEN Relabel(shown) ELSE shown
           current == ExtractComments(dom)
           all == Merge(allComments, current)
       IN IF ~ok
            THEN /\ Throw("snapshot extraction failed")
                 /\ collectExit' = "threw"
                 /\ UNCHANGED << allComments, seen, currentComments, polls, result, view >>
          ELSE /\ currentComments' = current
               /\ seen' = seen \cup { << current[i].author, current[i].content,
                                          current[i].time >> : i \in 1..Len(current) }
               /\ view' = dom
               /\ allComments' = all
               /\ polls' = Bump(polls)
               /\ IF TotalComments(all) >= commentCount
                    THEN Return(all, "target")
                    ELSE pc' = "collect_scroll" /\ UNCHANGED << result, collectExit >>
               /\ UNCHANGED error
  /\ scrollResult' = NoResult
  /\ UNCHANGED << inputs, exporter, pagesOpened, session, settle, unmarkedEnd, read, otherOps, gate, clicked, resources, commentCount, pageEnv, expandRet, outcome, thrown,
                  reveals, endAt, endFound >>

\* lines 713-830: one reveal step of the collection loop; the page moves on
\* from what the snapshot was read from. Line 759 calls
\* logger.debug inside the function page.evaluate runs in the page, where
\* the module's logger exists only if the page's own global scope provides
\* it (pageLogger); without it the call raises and the evaluate rejects.
CollectScroll ==
  /\ pc = "collect_scroll"
  /\ \E ok \in BOOLEAN, pg \in ScrollPages, said \in SaidNow(feed), pageLogger \in BOOLEAN :
       LET r == ScrollOutcome(pg[1], pg[2] \/ said, pg[3])
       IN /\ reveals' = Bump(reveals)
          /\ endFound' = (endFound \/ (ok /\ pg[1] /\ (pg[2] \/ said)))
          /\ unmarkedEnd' = (unmarkedEnd \/ (ok /\ (pg[1] => pageLogger)
                                               /\ r.hasEndText /\ ~ pg[2]))
          /\ endAt' = IF endAt = 0 /\ ok /\ (pg[1] => pageLogger) /\ r.reachedEnd
                         THEN reveals' ELSE endAt
          /\ IF ~ok \/ (pg[1] /\ ~pageLogger)
               THEN /\ Throw(IF ok THEN "logger is not defined" ELSE "scroll step failed")
                    /\ collectExit' = "threw"
                    /\ UNCHANGED << scrollResult, result, settle >>
             ELSE /\ scrollResult' = r
                  /\ settle' = AfterScrollStep(r, settle)
                  /\ IF r.reachedEnd
                       THEN Return(allComments, "reachedEnd")
                       ELSE pc' = "collect_settle" /\ UNCHANGED << result, collectExit >>
                  /\ UNCHANGED error
  /\ view' = << >>
  /\ UNCHANGED << inputs, exporter, pagesOpened, session, read, otherOps, gate, clicked, resources, commentCount, pageEnv, expandRet, outcome,
                  thrown, allComments, seen, currentComments, polls >>

\* line 838: waitForTimeout(2000)
CollectSettle ==
  /\ pc = "collect_settle"
  /\ pc' = "collect_check"
  /\ settle' = "waited"
  /\ UNCHANGED << inputs, exporter, pagesOpened, session, unmarkedEnd, read, otherOps, gate, clicked, resources, commentCount, pageEnv, expandRet, result, error,
                  outcome, thrown, loopVars >>

\* lines 840-847: no comment node rendered leaves the loop.
CollectCheck ==
  /\ pc = "collect_check"
  /\ \E ok \in BOOLEAN, dom \in Renderings(feed) :
       IF ~ok
         THEN /\ Throw("evaluate failed")
              /\ collectExit' = "threw"
              /\ UNCHANGED result
       ELSE /\ IF NodeCount(dom) > 0
                 THEN pc' = "collect_poll" /\ UNCHANGED << result, collectExit >>
                 ELSE Return(allComments, "noComments")
            /\ UNCHANGED error
  /\ UNCHANGED << inputs, exporter, pagesOpened, session, settle, unmarkedEnd, read, otherOps, gate, clicked, resources, commentCount, pageEnv, expandRet, outcome, thrown,
                  allComments, seen, currentComments, scrollResult, polls, reveals, endAt,
                  endFound, view >>

\* ------------------------------------------------ RedNoteTools.getNoteContent
\* The date texts and days a request meets: all of them for the requests
\* made with NoteUrl, one for the requests made with another share text.
DatesFor(shareText) ==
  IF shareText = NoteUrl THEN DateTexts \X Nows
  ELSE { << << "today" >>, [y |-> 2024, m |-> 5, d |-> 10] >> }

\* line 500, GetNoteDetail (noteDetail.ts lines 18-236): wait for
\* #noteContainer, read the note in the page (hasDate: it has a .date
\* element), throw when the page gave null or the reading raised.
GetDetail ==
  /\ pc = "detail"
  /\ \E found \in BOOLEAN, hasDate \in BOOLEAN, shown \in DatesFor(url) :
       LET fullText == shown[1]
           day == shown[2]
           n == NormalizePublishTime(fullText, day)
       IN IF ~found \/ ~hasDate
            THEN /\ UNCHANGED << dateText, now >>
                 /\ IF ~found
                      THEN Throw("note container not found") /\ UNCHANGED detail
                    ELSE /\ detail' = << [publishTime |-> << >>, url |-> url] >>
                         /\ pc' = "finally"
                         /\ UNCHANGED error
          ELSE /\ dateText' = fullText /\ now' = day
               /\ IF n.threw
                    THEN Throw("timeStr is undefined") /\ UNCHANGED detail
                  ELSE /\ detail' = << [publishTime |-> n.value, url |-> url] >>
                       /\ pc' = "finally"
                       /\ UNCHANGED error
  /\ UNCHANGED << inputs, exporter, pagesOpened, session, settle, unmarkedEnd, url, items, idx, notes, opened, covers, gate, clicked, resources,
                  commentCount, pageEnv, expandRet, result, outcome, thrown, loopVars >>

\* --------------------------------------------------- RedNoteTools.searchNotes
\* Min with the limit left out of the loop bound.
MinIgnoresLimit(a, b) == a

\* line 225: Math.min(noteItems.length, limit)
Min(a, b) == IF a < b THEN a ELSE b

\* lines 213-222: wait for .feeds-container and list its note items.
SearchList ==
  /\ pc = "search_list"
  /\ \E ok \in BOOLEAN, n \in 0..MaxItems :
       IF ok THEN items' = n /\ pc' = "search_note" /\ UNCHANGED error
       ELSE Throw("search results not found") /\ UNCHANGED items
  /\ UNCHANGED << inputs, exporter, pagesOpened, session, settle, unmarkedEnd, read, detail, idx, notes, opened, covers, gate, clicked, resources,
                  commentCount, pageEnv, expandRet, result, outcome, thrown, loopVars >>

\* line 239
maxRetries == 3

\* The retry loop going on until a click goes through.
ClickCoverNoLimit(fails) == [failed |-> fails, succeeded |-> 1]

\* lines 238-253: the clicks made on the cover of one item when the first
\* fails attempts raise: a click that goes through leaves the loop, the
\* maxRetries-th failure is thrown on.
ClickCover(fails) ==
  [failed |-> Min(fails, maxRetries),
   succeeded |-> IF fails < maxRetries THEN 1 ELSE 0]

\* lines 225-483: one pass of the loop, or its end. "pushed": the cover was
\* clicked, the dialog loaded and the note read in the page was pushed;
\* "skipped": a step failed (or the page gave null) and the catch of line
\* 463 closed the dialog; "fatal": the catch handler itself raised.
\* cover: a click of line 243 went through (the retries of lines 241-253
\* click the cover of the same item) and the item's dialog opened.
SearchNote ==
  /\ pc = "search_note"
  /\ IF idx >= Min(items, limit)
       THEN pc' = "finally" /\ UNCHANGED << idx, notes, opened, covers, error >>
     ELSE \E how \in {"pushed", "skipped", "fatal"}, fails \in 0..MaxFails,
             fullText \in { << "today" >>, << "editedAt" >> },
             day \in { [y |-> 2024, m |-> 5, d |-> 10] } :
            LET n == NormalizePublishTime(fullText, day)
                cover == ClickCover(fails).succeeded > 0
            IN /\ how = "pushed" => (~ n.threw /\ cover)
               /\ opened' = IF cover THEN opened + 1 ELSE opened
               /\ covers' = Append(covers, ClickCover(fails))
               /\ IF how = "fatal"
                    THEN Throw("closing the note failed") /\ UNCHANGED << idx, notes >>
                  ELSE /\ idx' = idx + 1
                       /\ notes' = IF how = "pushed"
                                     THEN Append(notes, [item |-> idx + 1,
                                                         publishTime |-> n.value])
                                   ELSE notes
                       /\ pc' = "search_note"
                       /\ UNCHANGED error
  /\ UNCHANGED << inputs, exporter, pagesOpened, session, settle, unmarkedEnd, read, detail, items, gate, clicked, resources, commentCount,
                  pageEnv, expandRet, result, outcome, thrown, loopVars >>

\* ---------------------------------------------------------- AuthManager.login
\* authManager.ts line 53: options.timeout || 120
DefaultTimeout == 120

Timeout == IF timeoutOpt = 0 THEN DefaultTimeout ELSE timeoutOpt

\* An exception inside the try of lines 56-110 goes to the catch.
LoginThrow(msg) ==
  /\ error' = msg
  /\ pc' = "login_catch"

\* A close() asked of a page or context: one that is not closed yet closes
\* or rejects, a closed one stays closed.
Closed(res, ok) ==
  IF res \in {"open", "closeRejected"} THEN (IF ok THEN "closed" ELSE "closeRejected")
  ELSE res

\* lines 54-64: getBrowser (outside the try: its error leaves login as it
\* is), newContext, newPage, goto of the explore page.
LoginOpen ==
  /\ pc = "start" /\ op = "login"
  /\ \E how \in {"launchFails", "contextFails", "pageFails", "gotoFails", "ok"} :
       /\ contextRes' = IF how \in {"launchFails", "contextFails"} THEN "none" ELSE "open"
       /\ loginPageRes' = IF how \in {"gotoFails", "ok"} THEN "open" ELSE "none"
       /\ IF how = "launchFails"
            THEN /\ error' = "browser launch failed" /\ pc' = "done"
                 /\ outcome' = "thrown"
                 /\ thrown' = [prefix |-> "", cause |-> "browser launch failed"]
          ELSE /\ UNCHANGED << outcome, thrown >>
               /\ IF how = "ok" THEN pc' = "login_check" /\ UNCHANGED error
                  ELSE LoginThrow("opening the explore page failed")
  /\ UNCHANGED << inputs, exporter, pagesOpened, settle, unmarkedEnd, read, otherOps, gate, clicked, resources, commentCount, pageEnv,
                  expandRet, result, loopVars, timeoutOpt, elapsed, observed,
                  cookiesSaved >>

\* lines 67-71 and 79-90: the first look for the indicator; when it is not
\* there, wait for the login dialog and the QR code and start the clock.
LoginCheck ==
  /\ pc = "login_check"
  /\ \E ok \in BOOLEAN, alreadyLoggedIn \in BOOLEAN, dialog \in BOOLEAN :
       IF ~ok THEN LoginThrow("indicator check failed") /\ UNCHANGED observed
       ELSE IF alreadyLoggedIn
         THEN observed' = TRUE /\ pc' = "login_save" /\ UNCHANGED error
       ELSE IF ~dialog THEN LoginThrow("login dialog not found") /\ UNCHANGED observed
       ELSE pc' = "login_poll" /\ UNCHANGED << observed, error >>
  /\ UNCHANGED << inputs, exporter, pagesOpened, settle, unmarkedEnd, read, otherOps, gate, clicked, resources, commentCount, pageEnv,
                  expandRet, result, outcome, thrown, loopVars, timeoutOpt, elapsed,
                  cookiesSaved, contextRes, loginPageRes >>

\* AfterLoop without the test of line 99.
AfterLoopAlwaysSaves(isLoggedIn) == "login_save"

\* lines 99-101: after the loop, throw unless the indicator was seen.
AfterLoop(isLoggedIn) == IF isLoggedIn THEN "login_save" ELSE "login_catch"

\* lines 91-98: one test of the loop condition and, when it holds, one poll
\* and the sleep of one second after a poll that did not find the
\* indicator (late: the poll and the timer took a further second).
LoginPoll ==
  /\ pc = "login_poll"
  /\ IF elapsed < Timeout
       THEN \E ok \in BOOLEAN, isLoggedIn \in BOOLEAN, late \in 0..1 :
              IF ~ok THEN LoginThrow("indicator check failed")
                          /\ UNCHANGED << observed, elapsed >>
              ELSE IF isLoggedIn
                THEN /\ observed' = TRUE /\ pc' = AfterLoop(TRUE)
                     /\ UNCHANGED << elapsed, error >>
              ELSE /\ elapsed' = Min(elapsed + 1 + late, Timeout)
                   /\ pc' = "login_poll"
                   /\ UNCHANGED << observed, error >>
     ELSE /\ pc' = AfterLoop(FALSE)
          /\ error' = IF pc' = "login_catch" THEN "Login timed out or failed" ELSE error
          /\ UNCHANGED << observed, elapsed >>
  /\ UNCHANGED << inputs, exporter, pagesOpened, settle, unmarkedEnd, read, otherOps, gate, clicked, resources, commentCount, pageEnv,
                  expandRet, result, outcome, thrown, loopVars, timeoutOpt,
                  cookiesSaved, contextRes, loginPageRes >>

\* lines 72-77 and 104-110: read the cookies of the context, save them,
\* close the page and the context, return.
LoginSave ==
  /\ pc = "login_save"
  /\ \E how \in {"cookiesFail", "saveFails", "ok"}, pageOk \in BOOLEAN, contextOk \in BOOLEAN :
       IF how # "ok"
         THEN /\ LoginThrow(IF how = "cookiesFail" THEN "reading the cookies failed"
                            ELSE "saving the cookies failed")
              /\ UNCHANGED << cookiesSaved, contextRes, loginPageRes, outcome >>
       ELSE /\ cookiesSaved' = TRUE
            /\ loginPageRes' = Closed(loginPageRes, pageOk)
            /\ contextRes' = IF pageOk THEN Closed(contextRes, contextOk) ELSE contextRes
            /\ IF pageOk /\ contextOk
                 THEN outcome' = "returned" /\ pc' = "done" /\ UNCHANGED error
                 ELSE LoginThrow("close failed") /\ UNCHANGED outcome
  /\ UNCHANGED << inputs, exporter, pagesOpened, settle, unmarkedEnd, read, otherOps, gate, clicked, resources, commentCount, pageEnv,
                  expandRet, result, thrown, loopVars, timeoutOpt, elapsed, observed >>

\* lines 111-116: close the page and the context that exist, swallowing a
\* rejected close, and rethrow.
LoginCatch ==
  /\ pc = "login_catch"
  /\ \E pageOk \in BOOLEAN, contextOk \in BOOLEAN :
       /\ loginPageRes' = Closed(loginPageRes, pageOk)
       /\ contextRes' = Closed(contextRes, contextOk)
  /\ outcome' = "thrown"
  /\ thrown' = [prefix |-> "", cause |-> error]
  /\ pc' = "done"
  /\ UNCHANGED << inputs, exporter, pagesOpened, settle, unmarkedEnd, read, otherOps, gate, clicked, resources, commentCount, pageEnv,
                  expandRet, result, error, loopVars, timeoutOpt, elapsed, observed,
                  cookiesSaved >>

\* ------------------------------------------------------- leaving the call
\* lines 591-593: finally { await this.cleanup() }. The locals of the two
\* loops are gone with their frames.
Finally ==
  /\ pc = "finally"
  /\ \E pageOk \in BOOLEAN, browserOk \in BOOLEAN :
       LET c == Cleanup(page, browser, pageRes, browserRes, pageOk, browserOk)
       IN /\ page' = c.page /\ browser' = c.browser
          /\ pageRes' = c.pageRes /\ browserRes' = c.browserRes
  /\ pc' = "command"
  /\ currentComments' = << >> /\ scrollResult' = NoResult /\ view' = << >>
  /\ UNCHANGED << inputs, exporter, pagesOpened, session, settle, unmarkedEnd, read, otherOps, gate, clicked, commentCount, pageEnv, expandRet, result, error, outcome,
                  thrown, allComments, seen, polls, reveals, collectExit, endAt, endFound >>

\* The command with a catch that logs and returns normally.
CommandSwallows ==
  /\ pc = "command"
  /\ outcome' = "returned"
  /\ pc' = "done"
  /\ UNCHANGED << inputs, exporter, pagesOpened, session, settle, unmarkedEnd, read, otherOps, gate, clicked, resources, commentCount, pageEnv,
                  expandRet, result, error, thrown, loopVars >>

\* The prefix each command puts before the message of the error it wraps.
Prefix ==
  CASE op = "comments" -> "Failed to get comments: "
    [] op = "content" -> "Failed to get note content: "
    [] op = "search" -> "Failed to search for notes: "

\* commands/getNoteComments.ts lines 13-25, getNoteContent.ts lines 13-25,
\* searchNotes.ts lines 15-25: return the result, or wrap the error; the
\* content and search commands run cleanup once more in their finally.
Command ==
  /\ pc = "command"
  /\ IF error = ""
       THEN outcome' = "returned" /\ UNCHANGED thrown
       ELSE /\ outcome' = "thrown"
            /\ thrown' = [prefix |-> Prefix, cause |-> error]
  /\ IF op = "comments" THEN UNCHANGED resources
     ELSE \E pageOk \in BOOLEAN, browserOk \in BOOLEAN :
            LET c == Cleanup(page, browser, pageRes, browserRes, pageOk, browserOk)
            IN /\ page' = c.page /\ browser' = c.browser
               /\ pageRes' = c.pageRes /\ browserRes' = c.browserRes
  /\ pc' = "done"
  /\ UNCHANGED << inputs, exporter, pagesOpened, session, settle, unmarkedEnd, read, otherOps, gate, clicked, commentCount, pageEnv, expandRet,
                  result, error, loopVars >>

Next ==
  \/ Initialize
  \/ Navigate
  \/ ProbeCount
  \/ OpenDialog
  \/ LoadView
  \/ ExpandRound
  \/ ExpandWait
  \/ LoadSettle
  \/ LoadScroll
  \/ LoadCheck
  \/ CollectPoll
  \/ CollectScroll
  \/ CollectSettle
  \/ CollectCheck
  \/ GetDetail
  \/ SearchList
  \/ SearchNote
  \/ LoginOpen
  \/ LoginCheck
  \/ LoginPoll
  \/ LoginSave
  \/ LoginCatch
  \/ Finally
  \/ Command

Spec == Init /\ [][Next]_vars

\* Every awaited step of the single thread of control completes.
FairSpec == Spec /\ WF_vars(Next)

\* ------------------------------------------------ the pre-pass on its own
\* A comment retrieval at line 559: initialize has found the indicator, the
\* note is open and the count probed is positive.
PrePassInit ==
  /\ pc = "open" /\ op = "comments" /\ feed \in Feeds /\ limit = 0 /\ timeoutOpt = 0
  /\ drift \in (IF feed \in DriftFeeds THEN BOOLEAN ELSE {FALSE})
  /\ url = NoteUrl /\ actualURL = ExtractRedBookUrl(NoteUrl)
  /\ loginSeen = TRUE /\ navigated = TRUE
  /\ browser = "set" /\ page = "set" /\ browserRes = "open" /\ pageRes = "open"
  /\ commentCount \in
       { IF label > 0 THEN label ELSE NodeCount(dom) :
           label \in 0..MaxTarget, dom \in Renderings(feed) } \ {0}
  /\ dateText = << >> /\ now = NoDay
  /\ detail = << >> /\ items = 0 /\ idx = 0 /\ notes = << >> /\ opened = 0 /\ covers = << >>
  /\ elapsed = 0 /\ observed = FALSE /\ cookiesSaved = FALSE
  /\ contextRes = "none" /\ loginPageRes = "none"
  /\ unmarkedEnd = FALSE
  /\ settle = "waited"
  /\ pagesOpened = 1
  /\ allComments = << >> /\ currentComments = << >> /\ seen = { }
  /\ scrollResult = NoResult
  /\ controls = << >> /\ created = 0
  /\ expandRet = ""
  /\ result = << >> /\ error = "" /\ outcome = "none"
  /\ thrown = NoError
  /\ polls = 0 /\ reveals = 0 /\ collectExit = "none"
  /\ endAt = 0 /\ endFound = FALSE
  /\ clicked = FALSE
  /\ view = << >>
  /\ NewExporter

\* lines 559-572: the steps up to the return of scrollAndLoadAllComments.
PrePassNext ==
  \/ OpenDialog
  \/ LoadView
  \/ ExpandRound
  \/ ExpandWait
  \/ LoadSettle
  \/ LoadScroll
  \/ LoadCheck

\* Every awaited step of the pre-pass completes.
PrePassSpec == PrePassInit /\ [][PrePassNext]_vars /\ WF_vars(PrePassNext)

\* ----------------------------------------------------------- ExcelExporter
\* Line numbers are those of src/utils/logger.ts.
\* The notes and the comment lists handed to the exporter. A note is its url
\* and its title; a comment is its author and its replies, which
\* convertCommentToRows follows to any depth.
Titles == {"a", "b"}

ExportNotes == [url : Urls, title : Titles]

Leaf(a) == [author |-> a, replies |-> << >>]

ExportComments ==
  { << >>,
    << Leaf("amy") >>,
    << [author |-> "amy", replies |-> << [author |-> "bob", replies |-> << Leaf("cat") >>] >>] >>,
    << [author |-> "amy", replies |-> << Leaf("bob"), Leaf("cat") >>], Leaf("amy") >> }

\* XLSX.utils.json_to_sheet: a row of cells per object, a cell holding the
\* value and its type ('n' for the numbers, 's' for the strings).
NumKeys == {"id", "note_id"}

JsonToSheet(rows) ==
  [i \in 1..Len(rows) |->
     [k \in DOMAIN rows[i] |-> [t |-> IF k \in NumKeys THEN "n" ELSE "s", v |-> rows[i][k]]]]

\* XLSX.utils.sheet_to_json: an object per row, of the raw values of its cells.
SheetToJson(sheet) ==
  [i \in 1..Len(sheet) |-> [k \in DOMAIN sheet[i] |-> sheet[i][k].v]]

\* lines 140-158; id is the value noteIdCounter++ gives.
ConvertNoteToRow(note, id) == [id |-> id, title |-> note.title, url |-> note.url]

\* convertCommentToRows with the parent's id written for every row, the
\* top-level ones included (where it is the id of no row).
RECURSIVE ConvertEach(_, _, _, _)
ConvertCommentToRowsParentAlways(comment, noteId, parentId, counter) ==
  LET rest == ConvertEach(comment.replies, noteId, counter, counter + 1)
  IN [rows |-> << [id |-> counter, note_id |-> noteId,
                   parent_id |-> NumToString(parentId),
                   author |-> comment.author] >> \o rest.rows,
      counter |-> rest.counter]

\* lines 160-186: the rows of a comment and of its replies, and
\* commentIdCounter afterwards. counter is commentIdCounter at the call;
\* parentId 0 is the argument left out (line 168 tests it for truth).
ConvertCommentToRows(comment, noteId, parentId, counter) ==
  LET rest == ConvertEach(comment.replies, noteId, counter, counter + 1)
  IN [rows |-> << [id |-> counter, note_id |-> noteId,
                   parent_id |-> IF parentId # 0 THEN NumToString(parentId) ELSE << >>,
                   author |-> comment.author] >> \o rest.rows,
      counter |-> rest.counter]

\* lines 178-183 and 226-231: the loop over a list of comments.
ConvertEach(comments, noteId, parentId, counter) ==
  IF comments = << >> THEN [rows |-> << >>, counter |-> counter]
  ELSE LET first == ConvertCommentToRows(Head(comments), noteId, parentId, counter)
           rest == ConvertEach(Tail(comments), noteId, parentId, first.counter)
       IN [rows |-> first.rows \o rest.rows, counter |-> rest.counter]

\* The fields of the exporter.
This ==
  [notesSheet |-> notesSheet, commentsSheet |-> commentsSheet, noteMap |-> noteMap,
   noteIdCounter |-> noteIdCounter, commentIdCounter |-> commentIdCounter,
   written |-> written]

\* appendNote keeping the rows of the note's url.
AppendNoteKeepsOld(x, note) ==
  LET id == x.noteIdCounter
  IN [x EXCEPT !.noteIdCounter = id + 1,
               !.noteMap[note.url] = id,
               !.notesSheet = JsonToSheet(Append(SheetToJson(x.notesSheet),
                                                 ConvertNoteToRow(note, id))),
               !.written.last[note.url] = << note >>]

\* lines 188-207
AppendNote(x, note) ==
  LET id == x.noteIdCounter
      noteRow == ConvertNoteToRow(note, id)
      existingNotes == SheetToJson(x.notesSheet)
      filteredNotes == SelectSeq(existingNotes, LAMBDA n : n.url # note.url)
  IN [x EXCEPT !.noteIdCounter = id + 1,
               !.noteMap[note.url] = id,
               !.notesSheet = JsonToSheet(Append(filteredNotes, noteRow)),
               !.written.last[note.url] = << note >>]

\* lines 209-243
AppendComments(x, noteUrl, comments) ==
  LET noteId == x.noteMap[noteUrl]
      existingComments == SheetToJson(x.commentsSheet)
      filteredComments == SelectSeq(existingComments, LAMBDA c : c.note_id # noteId)
      made == ConvertEach(comments, noteId, 0, x.commentIdCounter)
  IN IF noteId = 0 THEN x
     ELSE [x EXCEPT !.commentsSheet = JsonToSheet(filteredComments \o made.rows),
                    !.commentIdCounter = made.counter,
                    !.written = [@ EXCEPT !.comments = comments, !.rows = made.rows]]

\* lines 245-248
AppendNoteWithComments(x, note, comments) ==
  AppendComments(AppendNote(x, note), note.url, comments)

\* Everything but the exporter.
retrieval ==
  << pc, inputs, session, read, otherOps, gate, clicked, resources, commentCount, pageEnv,
     expandRet, result, error, outcome, thrown, loopVars, settle, unmarkedEnd, pagesOpened >>

Becomes(x) ==
  /\ notesSheet' = x.notesSheet /\ commentsSheet' = x.commentsSheet
  /\ noteMap' = x.noteMap
  /\ noteIdCounter' = x.noteIdCounter /\ commentIdCounter' = x.commentIdCounter
  /\ written' = x.written
  /\ calls' = calls + 1
  /\ UNCHANGED retrieval

CallAppendNote ==
  /\ calls < MaxCalls
  /\ \E note \in ExportNotes : Becomes(AppendNote(This, note))
  /\ combinedOnly' = FALSE

CallAppendComments ==
  /\ calls < MaxCalls
  /\ \E noteUrl \in Urls, comments \in ExportComments :
       Becomes(AppendComments(This, noteUrl, comments))
  /\ combinedOnly' = FALSE

CallAppendNoteWithComments ==
  /\ calls < MaxCalls
  /\ \E note \in ExportNotes, comments \in ExportComments :
       Becomes(AppendNoteWithComments(This, note, comments))
  /\ UNCHANGED combinedOnly

\* An exporter made where no file is (lines 89-137), and no retrieval running.
ExportInit ==
  /\ pc = "export"
  /\ op = "export" /\ feed = << >> /\ limit = 0 /\ timeoutOpt = 0
  /\ elapsed = 0 /\ observed = FALSE /\ cookiesSaved = FALSE
  /\ contextRes = "none" /\ loginPageRes = "none"
  /\ unmarkedEnd = FALSE
  /\ settle = "waited"
  /\ pagesOpened = 0
  /\ drift = FALSE
  /\ url = << >> /\ dateText = << >> /\ now = NoDay
  /\ loginSeen = FALSE /\ navigated = FALSE /\ actualURL = << >>
  /\ detail = << >> /\ items = 0 /\ idx = 0 /\ notes = << >> /\ opened = 0 /\ covers = << >>
  /\ browser = "null" /\ page = "null"
  /\ browserRes = "none" /\ pageRes = "none"
  /\ commentCount = 0
  /\ allComments = << >> /\ currentComments = << >> /\ seen = { }
  /\ scrollResult = NoResult
  /\ controls = << >> /\ created = 0
  /\ expandRet = ""
  /\ result = << >> /\ error = "" /\ outcome = "none"
  /\ thrown = NoError
  /\ polls = 0 /\ reveals = 0 /\ collectExit = "none"
  /\ endAt = 0 /\ endFound = FALSE
  /\ clicked = FALSE
  /\ view = << >>
  /\ NewExporter

ExportNext ==
  \/ CallAppendNote
  \/ CallAppendComments
  \/ CallAppendNoteWithComments

ExportSpec == ExportInit /\ [][ExportNext]_vars

\* ================================================================ claims
Triple(r) == << r.author, r.content, r.time >>

Triples(seq) == { Triple(seq[i]) : i \in 1..Len(seq) }

\* The comments that exist on the note: every block and reply of the feed
\* that has an author and a content, everything rendered and expanded.
ExistingCount == TotalComments(ExtractComments(feed))

\* C1: the accumulator never holds two top-level records with the same
\* (author, content, time) triple, whatever the snapshots contain.
C1_NoDuplicates ==
  \A i, j \in 1..Len(allComments) :
    i < j => Triple(allComments[i]) # Triple(allComments[j])

\* C2: every comment retrieval terminates, for every page behaviour.
C2_Terminates == <>(pc = "done")

\* C3: when getNoteComments has finished, returning or throwing, the page and
\* browser fields are null and close() has been awaited on every page and
\* browser the call acquired (none is left open without a close).
C3_Released ==
  pc = "done" =>
    /\ page = "null" /\ browser = "null"
    /\ pageRes # "open" /\ browserRes # "open"

C3_Witness ==
  /\ pc = "done" /\ outcome = "thrown" /\ error = "snapshot extraction failed"
  /\ pageRes = "closed" /\ browserRes = "closed"

\* C4: when the target exceeds the comments that exist and a reveal step of
\* the collection loop found the end marker in the container, the retrieval
\* returns normally a result whose derived count is the number of existing
\* comments.
C4_PartialCompletion ==
  (pc = "done" /\ endFound /\ ExistingCount > 0 /\ commentCount > ExistingCount) =>
    /\ outcome = "returned"
    /\ result # << >>
    /\ TotalComments(result[1]) = ExistingCount

\* C5: once the K-th reveal call of the collection loop has reported
\* reachedEnd, the loop has made, and will make, at most K+1 snapshot
\* extractions.
C5_EndWithinKPlusOne == endAt > 0 => polls <= endAt + 1

C5_Witness == pc = "done" /\ collectExit = "reachedEnd" /\ endAt = 2 /\ polls = 2

\* C6: the derived total of the accumulator never decreases from one step
\* of the collection loop to the next.
C6_MonotonicCount ==
  [][TotalComments(allComments') >= TotalComments(allComments)]_vars

C6_Witness == polls = 2 /\ TotalComments(allComments) = 3 /\ Len(currentComments) = 1

\* C7: merging the snapshot just merged a second time leaves the
\* accumulator as it is.
C7_Idempotent == Merge(allComments, currentComments) = allComments

C7_Witness ==
  /\ pc = "collect_scroll" /\ polls = 2
  /\ currentComments # << >> /\ Len(allComments) > Len(currentComments)

\* C8: a merge step yields the snapshot's records whose triple does not
\* occur in the old accumulator, in snapshot order, followed by the old
\* accumulator unchanged.
C8_MergeShape ==
  [][(pc = "collect_poll" /\ error' = "") =>
       allComments' =
         SelectSeq(currentComments',
                   LAMBDA r : Triple(r) \notin Triples(allComments)) \o allComments]_vars

C8_Witness ==
  /\ polls = 2 /\ Len(currentComments) = 2 /\ Len(allComments) = 2
  /\ allComments[1] = currentComments[2]
  /\ Triple(allComments[2]) = Triple(currentComments[1])

LoopErrors ==
  {"snapshot extraction failed", "scroll step failed", "logger is not defined",
   "evaluate failed"}

\* C9: when a snapshot extraction or a scroll step raises, the command
\* throws the error wrapped as 'Failed to get comments: ...' and no list,
\* partial or not, is returned.
C9_ErrorPropagates ==
  (pc = "done" /\ error \in LoopErrors) =>
    /\ outcome = "thrown"
    /\ thrown = [prefix |-> "Failed to get comments: ", cause |-> error]
    /\ result = << >>

C9_Witness ==
  /\ pc = "done" /\ error = "scroll step failed" /\ outcome = "thrown"
  /\ allComments # << >>

\* C10 as stated: after a scroll error caught in the reveal step the
\* collection loop goes on to the settle wait and the next poll; it does not
\* return with that iteration's scrollResult still carrying the error.
C10_NextPollFollows ==
  ~ (pc = "finally" /\ collectExit = "noComments" /\ scrollResult.error # "")

\* C10 amended: a scroll error caught in the reveal step gives a non-end
\* outcome with an error detail and no exception; the loop goes on to the
\* settle wait and the comment-node check, and from there to the next poll,
\* or returns normally when no comment node is rendered.
C10_ScrollErrorAbsorbed ==
  [][/\ (pc = "collect_scroll" /\ scrollResult'.error # "") =>
          (pc' = "collect_settle" /\ ~scrollResult'.reachedEnd /\ error' = "")
     /\ (pc = "collect_settle" /\ scrollResult.error # "") => pc' = "collect_check"
     /\ (pc = "collect_check" /\ scrollResult.error # "" /\ error' = "") =>
          (pc' = "collect_poll" \/ (pc' = "finally" /\ collectExit' = "noComments"))
    ]_vars

C10_Witness == pc = "collect_check" /\ scrollResult.error # "" /\ polls = 1

\* C11: when the reveal step of the collection loop finds no scrollable
\* container it reports reachedEnd, the loop leaves at once with the
\* accumulated records as the result and no error, and the command returns
\* that list.
C11_NoContainerEndsNormally ==
  /\ [][(pc = "collect_scroll" /\ scrollResult'.message = "No scrollable container found") =>
          /\ scrollResult'.reachedEnd
          /\ pc' = "finally" /\ collectExit' = "reachedEnd"
          /\ error' = "" /\ result' = << allComments >>]_vars
  /\ [](pc = "done" /\ collectExit = "reachedEnd" /\ ~endFound =>
          outcome = "returned" /\ error = "" /\ result = << allComments >>)

C11_Witness ==
  /\ pc = "done" /\ collectExit = "reachedEnd" /\ ~endFound
  /\ outcome = "returned" /\ allComments # << >>
  /\ TotalComments(allComments) < commentCount

\* C12: when the probed target is 0 (no count label with a positive number
\* and no comment node rendered) the retrieval returns the empty list; the
\* comment button is never clicked, nothing is expanded, scrolled or
\* extracted, and the page and browser are released.
C12_ZeroTargetShortCircuits ==
  /\ [][(pc = "probe" /\ error' = "" /\ commentCount' = 0) =>
          (pc' = "finally" /\ result' = << << >> >>)]_vars
  /\ [](pc = "done" /\ op = "comments" /\ error = "" /\ commentCount = 0 =>
          /\ outcome = "returned" /\ result = << << >> >>
          /\ ~clicked /\ polls = 0 /\ reveals = 0 /\ created = 0
          /\ scrollResult = NoResult
          /\ page = "null" /\ browser = "null"
          /\ pageRes # "open" /\ browserRes # "open")

C12_Witness ==
  /\ pc = "done" /\ outcome = "returned" /\ commentCount = 0 /\ result = << << >> >>
  /\ NodeCount(feed) > 0 /\ pageRes = "closed" /\ browserRes = "closed"

\* Every record of seq, and every reply of it, has an author and a content.
WellFormed(seq) ==
  \A i \in 1..Len(seq) :
    /\ seq[i].author # "" /\ seq[i].content # ""
    /\ \A j \in 1..Len(seq[i].replies) :
         seq[i].replies[j].author # "" /\ seq[i].replies[j].content # ""

\* C13: every top-level record and every reply of a snapshot, of the
\* accumulator and of the returned list has a non-empty author and a
\* non-empty content; nodes lacking either are skipped without an error.
C13_NonEmptyFields ==
  /\ WellFormed(currentComments)
  /\ WellFormed(allComments)
  /\ result # << >> => WellFormed(result[1])

C13_Witness ==
  /\ pc = "collect_scroll" /\ error = ""
  /\ view = FullFeed
  /\ Len(currentComments) = 3
  /\ TotalComments(currentComments) = 4
  /\ NodeCount(view) = 6

\* What the snapshot rules accept: a node with an author and with a text or
\* a picture.
HasContent(n) == n.text # "" \/ n.imgs # << >>

KeptBlocks(dom) == SelectSeq(dom, LAMBDA b : b.main /\ b.author # "" /\ HasContent(b))

KeptReplies(nodes) == SelectSeq(nodes, LAMBDA n : n.author # "" /\ HasContent(n))

PictureOnly(n) == n.text = "" /\ Len(n.imgs) = 1

PictureContent(imgs) ==
  IF \A i \in 1..Len(imgs) : imgs[i] = "" THEN PictureComment ELSE ImageMarkers(imgs)

Qualifiers == { << >>, << "editedAt" >>, << "editedAt", " " >> }

Places == { << >>, << " ", "place" >> }

\* C15: a note whose date text is a full date 2023-M-D, bare or behind the
\* qualifier, gets the publish time 2023-MM-DD, month and day zero-padded.
C15_FullDateKept ==
  \A q \in Qualifiers, l \in Places, m \in DateParts, d \in DateParts :
    (detail # << >> /\ dateText = q \o << "2", "0", "2", "3", "-" >> \o m \o << "-" >> \o d \o l)
      => detail[1].publishTime =
           << "2", "0", "2", "3", "-" >> \o PadStart2(m) \o << "-" >> \o PadStart2(d)

\* C16: a note whose date text is 'N days ago' (or 'yesterday') gets as
\* publish time the calendar date N days (one day) before the day of the
\* request, with the year of that date.
C16_DaysAgoExact ==
  \A q \in Qualifiers, l \in Places, n \in 0..MaxAgo :
    LET t == SetDateMinus(now, n)
        y == SetDateMinus(now, 1)
    IN /\ (detail # << >> /\ dateText = q \o NumToString(n) \o << "daysAgo" >> \o l)
            => detail[1].publishTime = DateString(t.y, t.m, t.d)
       /\ (detail # << >> /\ dateText = q \o << "yesterday" >> \o l)
            => detail[1].publishTime = DateString(y.y, y.m, y.d)

\* The date texts no rule of the normalizer knows: made of the qualifier,
\* the word 'pinned', a place and white space only.
NoRuleTexts ==
  { t \in DateTexts :
      t # << >> /\ \A i \in 1..Len(t) : t[i] \in {"editedAt", "pinned", "place", " "} }

\* C17: a note whose date text matches no rule is read without an error and
\* its publish time is that text unchanged.
C17_UnparsableVerbatim ==
  (pc = "done" /\ op = "content" /\ dateText \in NoRuleTexts) =>
    /\ outcome = "returned" /\ error = ""
    /\ detail # << >> /\ detail[1].publishTime = dateText

\* A YYYY-MM-DD string.
IsStandardDate(s) ==
  /\ Len(s) = 10
  /\ \A i \in {1, 2, 3, 4, 6, 7, 9, 10} : s[i] \in Digit
  /\ s[5] = "-" /\ s[8] = "-"

Parseable(phrase) == ConvertToStandardDate(phrase, [y |-> 2024, m |-> 5, d |-> 10], FALSE) # << >>

Normalized(raw, t) == IF Parseable(raw) THEN IsStandardDate(t) ELSE t = raw

\* C18: the time of every record and reply of the snapshot just read is the
\* normalizer's output for the time label of its node: a YYYY-MM-DD string
\* when the label is parseable, the label itself when it is not.
C18_TimeNormalized ==
  pc = "collect_scroll" =>
    LET k == KeptBlocks(view)
    IN \A i \in 1..Len(currentComments) :
         /\ Normalized(k[i].time, currentComments[i].time)
         /\ \A j \in 1..Len(currentComments[i].replies) :
              Normalized(KeptReplies(k[i].replies)[j].time,
                         currentComments[i].replies[j].time)

\* A share text holds a short link / a long link.
HasShortLink(s) == \E i \in 1..(Len(s) - 1) : s[i] = "X" /\ s[i + 1] = "a"

HasLongLink(s) == \E i \in 1..(Len(s) - 1) : s[i] = "W" /\ s[i + 1] \notin {" ", ","}

\* r is the link of s that opens with open at i and runs over elements of
\* set as far as they go, and no such link opens before i.
IsFirstLink(s, r, open, set) ==
  \E i \in 1..Len(s) :
    /\ Len(r) >= 2 /\ i + Len(r) - 1 <= Len(s)
    /\ SubSeq(s, i, i + Len(r) - 1) = r
    /\ r[1] = open /\ \A k \in 2..Len(r) : r[k] \in set
    /\ i + Len(r) <= Len(s) => s[i + Len(r)] \notin set
    /\ \A h \in 1..(i - 1) : ~ (s[h] = open /\ s[h + 1] \in set)

\* C19: the address a note is opened at is the short link of the share text
\* when it holds one (wherever a long link stands), else its first long
\* link, else the text itself; extracting from that address again gives the
\* same address.
C19_ExtractUrl ==
  (navigated /\ op = "content") =>
    /\ HasShortLink(url) => IsFirstLink(url, actualURL, "X", {"a"})
    /\ (~ HasShortLink(url) /\ HasLongLink(url)) =>
         IsFirstLink(url, actualURL, "W", {"X", "W", "a"})
    /\ (~ HasShortLink(url) /\ ~ HasLongLink(url)) => actualURL = url
    /\ ExtractRedBookUrl(actualURL) = actualURL

C19_Witness ==
  /\ navigated /\ op = "content"
  /\ url = << "W", "a", "X", "a" >> /\ actualURL = << "X", "a" >>

C21_SearchBounded ==
  op = "search" =>
    /\ Len(notes) <= limit /\ Len(notes) <= items
    /\ opened <= limit /\ opened <= items
    /\ Len(notes) <= opened

C21_Witness ==
  /\ pc = "done" /\ op = "search" /\ outcome = "returned"
  /\ items = 2 /\ limit = 1 /\ Len(notes) = 1 /\ opened = 1

\* The errors of reading and writing the cookies themselves.
SaveErrors == {"reading the cookies failed", "saving the cookies failed"}

\* C22: a login never saves cookies without having observed the logged-in
\* indicator, and having observed it saves them (unless reading or writing
\* the cookies itself raised); when the timeout elapses first it throws
\* 'Login timed out or failed' with no cookies saved; a login that returns
\* has saved them; and on every outcome the page and the context it opened
\* have been closed.
C22_LoginSavesIffSeen ==
  /\ cookiesSaved => observed
  /\ (pc = "done" /\ op = "login") =>
       /\ observed => (cookiesSaved \/ error \in SaveErrors)
       /\ (~ observed /\ elapsed >= Timeout) =>
            /\ outcome = "thrown"
            /\ thrown = [prefix |-> "", cause |-> "Login timed out or failed"]
            /\ ~ cookiesSaved
       /\ error = "Login timed out or failed" => (~ observed /\ elapsed >= Timeout)
       /\ outcome = "returned" => cookiesSaved
       /\ loginPageRes # "open" /\ contextRes # "open"

C22_Witness ==
  /\ pc = "done" /\ op = "login" /\ outcome = "returned"
  /\ timeoutOpt = 2 /\ elapsed = 1 /\ observed /\ cookiesSaved
  /\ loginPageRes = "closed" /\ contextRes = "closed"

\* C23: a reveal step (a call of the in-page scroll function that returns)
\* is made only after a snapshot was merged and the total was found below
\* the target.
C23_RevealOnlyBelowTarget ==
  [][(pc \in {"load_scroll", "collect_scroll"} /\ error' = "") =>
       (polls > 0 /\ TotalComments(allComments) < commentCount)]_vars

\* C24: the accumulator never holds two records of one comment that differ
\* in the time label only, i.e. a comment whose relative time label moved
\* on between two snapshots is still recorded once.
C24_OncePerComment ==
  \A i, j \in 1..Len(allComments) :
    (/\ i < j
     /\ allComments[i].author = allComments[j].author
     /\ allComments[i].content = allComments[j].content
     /\ allComments[i].likes = allComments[j].likes)
      => allComments[i].time = allComments[j].time

\* C25: every step leaves the records of the accumulator as they are, with
\* their replies and likes, at the end of the new accumulator; a snapshot
\* that shows a recorded comment with further replies adds none of them.
C25_RecordsFrozen ==
  [][/\ Len(allComments') >= Len(allComments)
     /\ \A i \in 1..Len(allComments) :
          allComments'[Len(allComments') - Len(allComments) + i] = allComments[i]]_vars

C25_Witness ==
  /\ pc = "collect_scroll" /\ polls = 2
  /\ \E i \in 1..Len(allComments), k \in 1..Len(currentComments) :
       /\ Triple(allComments[i]) = Triple(currentComments[k])
       /\ allComments[i].replies = << >>
       /\ currentComments[k].replies # << >>

\* C26: every triple that occurred in a snapshot extracted so far occurs in
\* the accumulator.
C26_NothingLost == seen \subseteq Triples(allComments)

C26_Witness ==
  /\ pc = "collect_scroll" /\ polls = 2
  /\ Cardinality(seen) = 2
  /\ Cardinality(Triples(currentComments)) = 1

\* C27: a reveal step reports the end text found only when the page's end
\* marker is in the container; the text of a comment never makes it do so.
C27_EndOnlyOnMarker == ~ unmarkedEnd

\* The controls a step clicks.
ClickedNow == { i \in 1..Len(controls) : controls'[i].clicks > controls[i].clicks }

\* C28: no expand control is clicked more than once in a retrieval; a
\* control that was clicked carries the mark; a round of the sweep clicks at
\* most one control, which was shown and unmarked and is marked by the
\* round, and no shown unmarked control stands before it in document order.
C28_ClickedOnce ==
  /\ [](\A i \in 1..Len(controls) :
          controls[i].clicks <= 1 /\ (controls[i].clicks = 1 => controls[i].expanded))
  /\ [][(pc = "expand" /\ error' = "") =>
          /\ Len(controls') = Len(controls)
          /\ Cardinality(ClickedNow) <= 1
          /\ \A i \in 1..Len(controls) :
               IF i \in ClickedNow
                 THEN /\ controls[i].shown /\ ~ controls[i].expanded
                      /\ controls'[i].expanded
                      /\ \A h \in 1..(i - 1) : ~ (controls[h].shown /\ ~ controls[h].expanded)
               ELSE controls'[i] = controls[i]]_vars

C28_Witness ==
  /\ pc = "expand" /\ expandRet = "load_settle2"
  /\ Len(controls) = 2
  /\ \A i \in 1..2 : controls[i].shown /\ controls[i].expanded /\ controls[i].clicks = 1

\* C29: a sweep that has started returns (or raises), the page creating
\* only finitely many controls, and when it returns no control that is
\* shown and unmarked remains.
C29_SweepEnds ==
  /\ (pc = "expand") ~> (pc \notin {"expand", "expand_wait"})
  /\ [][(pc = "expand" /\ pc' \notin {"expand", "expand_wait"} /\ error' = "") =>
          \A i \in 1..Len(controls') : ~ (controls'[i].shown /\ ~ controls'[i].expanded)]_vars

C29_Witness ==
  /\ pc = "load_settle" /\ Len(controls) = 2
  /\ controls[1].expanded /\ controls[1].clicks = 1
  /\ ~ controls[2].shown /\ ~ controls[2].expanded


\* C30: whenever the DOM is about to be read for a snapshot or for the
\* candidates of an expansion round, some wait has been performed since the
\* last scroll step or expand click.
C30_WaitBeforeRead == pc \in {"collect_poll", "expand"} => settle # "none"

\* The same of the collecting loop alone.
C30_CollectWaits == pc = "collect_poll" => settle = "waited"

\* The pre-pass searches for candidates with the scroll step only just
\* resolved by its timer.
C30_TimerOnly == pc = "expand" /\ expandRet = "load_settle2" /\ settle = "timer"

\* C31: a call of cleanup (the finally of the tool method, or the catch of
\* initialize) raises nothing, leaves page and browser null, asks the
\* browser to close whenever the field is set, whatever the page's close()
\* did, and closes nothing whose field is null already.
C31_CleanupSafe ==
  /\ [][pc = "finally" =>
          /\ pc' = "command" /\ error' = error
          /\ page' = "null" /\ browser' = "null"
          /\ (page # "null" => pageRes' \in {"closed", "closeRejected"})
          /\ (browser # "null" => browserRes' \in {"closed", "closeRejected"})
          /\ (page = "null" => pageRes' = pageRes)
          /\ (browser = "null" => browserRes' = browserRes)]_vars
  /\ [][(pc \in {"start", "tool_init"} /\ op # "login" /\ error' # ""
           /\ error' # InitError("launchFails")) =>
          /\ error' \in {InitError(how) : how \in InitOutcomes \ {"ok", "launchFails"}}
          /\ page' = "null" /\ browser' = "null"
          /\ pageRes' # "open"
          /\ browserRes' \in {"closed", "closeRejected"}]_vars

\* initialize failed its login check and its catch ran cleanup, the page's
\* close() rejecting; the finally of getNoteComments has called it again.
C31_Witness ==
  /\ op = "comments" /\ pc = "command" /\ error = "Not logged in"
  /\ page = "null" /\ browser = "null"
  /\ pageRes = "closeRejected" /\ browserRes = "closed"

\* C32: a request of searchNotes, getNoteContent or getNoteComments never
\* has more than one page opened by its RedNoteTools instance, and when the
\* request is over the page it opened is the one cleanup asked to close.
C32_OnePage ==
  op \in {"search", "content", "comments"} =>
    /\ pagesOpened <= 1
    /\ (pc = "done" /\ pagesOpened = 1) => pageRes \in {"closed", "closeRejected"}

\* The comments command, which leaves initialize to the tool method, keeps to it.
C32_CommentsOnePage == op = "comments" => pagesOpened <= 1

\* C33: in the snapshot just read, the content of every top-level record is
\* made of the text and the pictures of the primary node of its block alone,
\* and the content of every reply record of those of its reply node.
C33_OwnImagesOnly ==
  pc = "collect_scroll" =>
    LET k == KeptBlocks(view)
    IN /\ Len(k) = Len(currentComments)
       /\ \A i \in 1..Len(k) :
            LET kr == KeptReplies(k[i].replies)
                rs == currentComments[i].replies
            IN /\ currentComments[i].content = CommentContent(k[i].text, k[i].imgs)
               /\ Len(kr) = Len(rs)
               /\ \A j \in 1..Len(kr) :
                    rs[j].content = CommentContent(kr[j].text, kr[j].imgs)

\* The reply records by themselves carry the pictures of their own node only.
C33_RepliesOwnImages ==
  pc = "collect_scroll" =>
    LET k == KeptBlocks(view)
    IN /\ Len(k) = Len(currentComments)
       /\ \A i \in 1..Len(k) :
            LET kr == KeptReplies(k[i].replies)
                rs == currentComments[i].replies
            IN /\ Len(kr) = Len(rs)
               /\ \A j \in 1..Len(kr) :
                    rs[j].content = CommentContent(kr[j].text, kr[j].imgs)

\* The rows of the two sheets as the exporter reads them.
NoteRows == SheetToJson(notesSheet)

CommentRows == SheetToJson(commentsSheet)

\* C34: on an exporter only ever called through appendNoteWithComments,
\* every row of the comments sheet has the id of a row of the notes sheet as
\* its note_id.
C34_CommentsHaveNote ==
  combinedOnly =>
    \A i \in 1..Len(CommentRows) :
      \E j \in 1..Len(NoteRows) : NoteRows[j].id = CommentRows[i].note_id

\* The places of the parents of the comments of a list, in the order
\* parent first, replies next: 0 for a comment of the list itself (whose
\* parent is at place p), the place of the parent for a reply. base is the
\* number of places taken before the list.
RECURSIVE Parents(_, _, _)
Parents(comments, base, p) ==
  IF comments = << >> THEN << >>
  ELSE LET own == << p >> \o Parents(Head(comments).replies, base + 1, base + 1)
       IN own \o Parents(Tail(comments), base + Len(own), p)

\* C35: the rows made of the comments last passed to appendComments are
\* the last rows of the sheet, one per comment and reply, with pairwise
\* distinct ids; the row of a top-level comment has an empty parent_id, the
\* row of a reply has the id of its parent's row, an earlier row, as parent_id.
C35_RowsFormTree ==
  LET rows == written.rows
      ps == Parents(written.comments, 0, 0)
      n == Len(CommentRows)
  IN /\ Len(rows) = Len(ps)
     /\ Len(rows) <= n /\ rows = SubSeq(CommentRows, n - Len(rows) + 1, n)
     /\ \A i, j \in 1..Len(rows) : i # j => rows[i].id # rows[j].id
     /\ \A i \in 1..Len(rows) :
          IF ps[i] = 0 THEN rows[i].parent_id = << >>
          ELSE ps[i] < i /\ rows[i].parent_id = NumToString(rows[ps[i]].id)

\* A comment with a reply that has a reply itself, written by a second call.
C35_Witness ==
  /\ Len(written.rows) = 3 /\ written.rows[1].id > 1
  /\ written.rows[1].parent_id = << >>
  /\ written.rows[2].parent_id = NumToString(written.rows[1].id)
  /\ written.rows[3].parent_id = NumToString(written.rows[2].id)

\* C36: for every url the notes sheet holds no row when no note of that url
\* was appended, and otherwise exactly one, made of the note appended last,
\* whose id is what noteMap gives for the url.
C36_OneRowPerUrl ==
  \A u \in Urls :
    LET rows == SelectSeq(NoteRows, LAMBDA n : n.url = u)
    IN IF written.last[u] = << >> THEN rows = << >> /\ noteMap[u] = 0
       ELSE /\ Len(rows) = 1
            /\ rows[1].title = written.last[u][1].title
            /\ rows[1].id = noteMap[u]

\* n1 appended, n2 appended, n1 appended again with another title.
C36_Witness ==
  /\ calls = 3 /\ Len(NoteRows) = 2
  /\ noteMap["n1"] = 3 /\ noteMap["n2"] = 2
  /\ NoteRows[2].url = "n1" /\ NoteRows[2].title = "b"

====
